---- MODULE Spec2Model ----
(***************************************************************************)
(* State-machine model of the plant-sampling API                           *)
(* (src/plant_sampling/apps/sampling): the relational tables of models.py, *)
(* the serializers of serializers.py and the request handlers of views.py. *)
(* One action is one HTTP request handled to completion.                   *)
(***************************************************************************)
EXTENDS Integers, Sequences, FiniteSets, TLC

\* ------------------------------------------------------------------ bounds
MaxDay == 2
MaxSamples == 2
MaxLocations == 2
MaxConditions == 1
MaxResearchers == 2
MaxGrowth == 1
MaxLinks == 2
MaxStoreLinks == 1
MaxStoreResearchers == 1
MaxAudit == 3
MaxRequests == 2

VARIABLES
    locations,    \* sampling_location rows: location_id -> row
    conditions,   \* environmental_conditions rows: condition_id -> row
    researchers,  \* researcher_info rows: researcher_id -> row
    samples,      \* plant_sample rows: sample_id -> row
    links,        \* sample_researchers rows: id -> row
    growth,       \* growth_metrics rows: growth_id -> row
    audit,        \* sample_audit_log rows in log_id order (log_id = index;
                  \* performed_at never decreases along it)
    seq,          \* the AutoField counters: table name -> last id handed out
    now,          \* the clock, in days: timezone.now() and date.today()
    resp,         \* the response to the last request
    pending       \* the requests between the load of their sample and their
                  \* transaction: request -> [op, sample_id, data, sample]

vars ==
    <<locations, conditions, researchers, samples, links, growth, audit, seq, now, resp,
      pending>>

\* ------------------------------------------------------------ plain helpers
\* A nullable column: <<>> is NULL/None, <<v>> holds v.
Null == <<>>
Some(v) == <<v>>

\* The empty table / empty JSON object.
Empty == [k \in {} |-> Null]

\* dict[key] = value on a Python dict (a function on its keys).
DictSet(d, key, value) ==
    [k \in (DOMAIN d) \cup {key} |-> IF k = key THEN value ELSE d[k]]

\* Table without the rows whose key is in ids.
Without(table, ids) == [k \in (DOMAIN table) \ ids |-> table[k]]

\* ------------------------------------------------------------------- dates
\* The calendar: day number i is written DateStrings[i] in ISO format.
DateStrings == <<"2024-03-01", "2024-03-02", "2024-03-03", "2024-03-04">>

\* date.today().isoformat()
isoformat(day) == DateStrings[day]

\* datetime.strptime(s, '%Y-%m-%d') succeeds
strptime_ok(s) == \E i \in DOMAIN DateStrings : DateStrings[i] = s

\* datetime.strptime(s, '%Y-%m-%d').date(), as a day number
strptime(s) == CHOOSE i \in DOMAIN DateStrings : DateStrings[i] = s

\* str(x).strip() == '' for the strings the model draws
StripIsEmpty(s) == s \in {"", " "}

\* ------------------------------------------------------- validation rules
NoError == ""

SITE_TYPE_CHOICES ==
    {"forest", "grassland", "wetland", "desert", "agricultural", "urban", "coastal", "mountain"}

SOIL_TYPE_CHOICES == {"clay", "sandy", "loamy", "silty", "peaty", "chalky", "saline"}

ROLE_CHOICES ==
    {"lead_researcher", "assistant_researcher", "field_technician", "data_analyst", "supervisor"}

HEALTH_STATUS_CHOICES == {"excellent", "good", "fair", "poor", "critical"}

\* SamplingLocation.clean with the bounds of latitude and longitude taken
\* as exclusive.
SamplingLocation_clean_exclusive(location_data) ==
    IF "coordinates" \notin DOMAIN location_data THEN "location_data must contain 'coordinates'"
    ELSE IF "region" \notin DOMAIN location_data THEN "location_data must contain 'region'"
    ELSE IF "country" \notin DOMAIN location_data THEN "location_data must contain 'country'"
    ELSE LET coords == location_data["coordinates"] IN
    IF "latitude" \notin DOMAIN coords \/ "longitude" \notin DOMAIN coords
        THEN "coordinates must contain 'latitude' and 'longitude'"
    ELSE IF ~(-90 < coords["latitude"] /\ coords["latitude"] < 90)
        THEN "Latitude must be between -90 and 90"
    ELSE IF ~(-180 < coords["longitude"] /\ coords["longitude"] < 180)
        THEN "Longitude must be between -180 and 180"
    ELSE IF "site_type" \in DOMAIN location_data
            /\ location_data["site_type"] \notin SITE_TYPE_CHOICES
        THEN "Invalid site_type"
    ELSE NoError

\* SamplingLocation.clean: the first violation found, or NoError.
SamplingLocation_clean(location_data) ==
    IF "coordinates" \notin DOMAIN location_data THEN "location_data must contain 'coordinates'"
    ELSE IF "region" \notin DOMAIN location_data THEN "location_data must contain 'region'"
    ELSE IF "country" \notin DOMAIN location_data THEN "location_data must contain 'country'"
    ELSE LET coords == location_data["coordinates"] IN
    IF "latitude" \notin DOMAIN coords \/ "longitude" \notin DOMAIN coords
        THEN "coordinates must contain 'latitude' and 'longitude'"
    ELSE IF ~(-90 <= coords["latitude"] /\ coords["latitude"] <= 90)
        THEN "Latitude must be between -90 and 90"
    ELSE IF ~(-180 <= coords["longitude"] /\ coords["longitude"] <= 180)
        THEN "Longitude must be between -180 and 180"
    ELSE IF "site_type" \in DOMAIN location_data
            /\ location_data["site_type"] \notin SITE_TYPE_CHOICES
        THEN "Invalid site_type"
    ELSE NoError

\* SamplingLocationSerializer.validate_location_data
validate_location_data(value) ==
    IF "coordinates" \notin DOMAIN value THEN "location_data must contain 'coordinates'"
    ELSE IF "region" \notin DOMAIN value THEN "location_data must contain 'region'"
    ELSE IF "country" \notin DOMAIN value THEN "location_data must contain 'country'"
    ELSE NoError

\* EnvironmentalConditions.clean: the first violation found, or NoError.
EnvironmentalConditions_clean(condition_data) ==
    IF "soil_composition" \notin DOMAIN condition_data
        THEN "condition_data must contain 'soil_composition'"
    ELSE IF "temperature" \notin DOMAIN condition_data
        THEN "condition_data must contain 'temperature'"
    ELSE IF "humidity" \notin DOMAIN condition_data
        THEN "condition_data must contain 'humidity'"
    ELSE IF "altitude" \notin DOMAIN condition_data
        THEN "condition_data must contain 'altitude'"
    ELSE LET soil == condition_data["soil_composition"] IN
    IF "pH" \notin DOMAIN soil THEN "soil_composition must contain 'pH'"
    ELSE IF "nutrients" \notin DOMAIN soil THEN "soil_composition must contain 'nutrients'"
    ELSE IF "type" \notin DOMAIN soil THEN "soil_composition must contain 'type'"
    ELSE IF ~(0 <= soil["pH"] /\ soil["pH"] <= 14) THEN "pH must be between 0 and 14"
    ELSE IF ~(-50 <= condition_data["temperature"] /\ condition_data["temperature"] <= 60)
        THEN "Temperature must be between -50 and 60"
    ELSE IF ~(0 <= condition_data["humidity"] /\ condition_data["humidity"] <= 100)
        THEN "Humidity must be between 0 and 100%"
    ELSE IF ~(-500 <= condition_data["altitude"] /\ condition_data["altitude"] <= 9000)
        THEN "Altitude must be between -500 and 9000 meters"
    ELSE IF soil["type"] \notin SOIL_TYPE_CHOICES THEN "Invalid soil type"
    ELSE NoError

\* EnvironmentalConditionsSerializer.validate_condition_data
validate_condition_data(value) ==
    IF "soil_composition" \notin DOMAIN value
        THEN "condition_data must contain 'soil_composition'"
    ELSE IF "temperature" \notin DOMAIN value THEN "condition_data must contain 'temperature'"
    ELSE IF "humidity" \notin DOMAIN value THEN "condition_data must contain 'humidity'"
    ELSE IF "altitude" \notin DOMAIN value THEN "condition_data must contain 'altitude'"
    ELSE NoError

\* ResearcherInfo.clean
ResearcherInfo_clean(name) ==
    IF name = "" \/ StripIsEmpty(name) THEN "Name cannot be empty" ELSE NoError

\* PlantSample.clean without the comparison with date.today().
PlantSample_clean_any_date(sample_detail, today) ==
    IF "sampling_date" \notin DOMAIN sample_detail
        THEN "sample_detail must contain 'sampling_date'"
    ELSE IF "species" \notin DOMAIN sample_detail THEN "sample_detail must contain 'species'"
    ELSE IF "common_name" \notin DOMAIN sample_detail
        THEN "sample_detail must contain 'common_name'"
    ELSE IF sample_detail["species"] = "" \/ StripIsEmpty(sample_detail["species"])
        THEN "Species name cannot be empty"
    ELSE IF ~strptime_ok(sample_detail["sampling_date"])
        THEN "Invalid sampling_date format. Use YYYY-MM-DD"
    ELSE NoError

\* PlantSample.clean at date.today() = today: the first violation, or NoError.
PlantSample_clean(sample_detail, today) ==
    IF "sampling_date" \notin DOMAIN sample_detail
        THEN "sample_detail must contain 'sampling_date'"
    ELSE IF "species" \notin DOMAIN sample_detail THEN "sample_detail must contain 'species'"
    ELSE IF "common_name" \notin DOMAIN sample_detail
        THEN "sample_detail must contain 'common_name'"
    ELSE IF sample_detail["species"] = "" \/ StripIsEmpty(sample_detail["species"])
        THEN "Species name cannot be empty"
    ELSE IF ~strptime_ok(sample_detail["sampling_date"])
        THEN "Invalid sampling_date format. Use YYYY-MM-DD"
    ELSE IF strptime(sample_detail["sampling_date"]) > today
        THEN "Sampling date cannot be in the future"
    ELSE NoError

\* PlantSampleCreateSerializer.validate_sample_detail
PlantSampleCreateSerializer_validate_sample_detail(value) ==
    IF "sampling_date" \notin DOMAIN value THEN "sample_detail must contain 'sampling_date'"
    ELSE IF "species" \notin DOMAIN value THEN "sample_detail must contain 'species'"
    ELSE IF "common_name" \notin DOMAIN value THEN "sample_detail must contain 'common_name'"
    ELSE NoError

\* PlantSampleUpdateSerializer.validate_sample_detail
PlantSampleUpdateSerializer_validate_sample_detail(value) ==
    IF "sampling_date" \notin DOMAIN value THEN "sample_detail must contain 'sampling_date'"
    ELSE IF "species" \notin DOMAIN value THEN "sample_detail must contain 'species'"
    ELSE IF "common_name" \notin DOMAIN value THEN "sample_detail must contain 'common_name'"
    ELSE NoError

\* The first lines of PlantSample.save: sampling_date is filled with today's
\* date when sample_detail.get('sampling_date') is falsy (absent or empty).
AutoFillSamplingDate(sample_detail, today) ==
    IF "sampling_date" \notin DOMAIN sample_detail \/ sample_detail["sampling_date"] = ""
    THEN DictSet(sample_detail, "sampling_date", isoformat(today))
    ELSE sample_detail

\* ---------------------------------------------------------------- requests
\* A valid sample_detail payload.
BaseDetail ==
    [species |-> "Quercus robur", common_name |-> "English Oak", sampling_date |-> isoformat(1)]

\* d without key.
DictDrop(d, key) == [k \in (DOMAIN d) \ {key} |-> d[k]]

\* The sample_detail payloads a request may carry: BaseDetail, BaseDetail
\* with another common name or a later date (up to the day after the last
\* day of the clock), BaseDetail with one defect, and a partial payload.
DetailInputs ==
    {BaseDetail, DictSet(BaseDetail, "common_name", "Oak")}
    \cup {DictSet(BaseDetail, "sampling_date", isoformat(day)) : day \in 2..(MaxDay + 1)}
    \cup {DictDrop(BaseDetail, k) : k \in DOMAIN BaseDetail}
    \cup {DictSet(BaseDetail, "sampling_date", v) : v \in {"", "01/03/2024"}}
    \cup {DictSet(BaseDetail, "species", v) : v \in {"", " "}}
    \cup {[common_name |-> "Oak"]}

LocationIds == 1..MaxLocations
ConditionIds == 1..MaxConditions
SampleIds == 1..MaxSamples
ResearcherIds == 1..MaxResearchers
GrowthIds == 1..MaxGrowth
LinkIds == 1..MaxLinks

\* The bodies of POST /samples/create/ and PUT /samples/<id>/update/: every
\* field given (each payload with location 1, BaseDetail with each location
\* and condition), or one of the three left out.
FullSampleData ==
    {[sample_detail |-> sd, location |-> 1, condition |-> 1] : sd \in DetailInputs}
    \cup {[sample_detail |-> BaseDetail, location |-> l, condition |-> c] :
            l \in LocationIds, c \in ConditionIds}

SampleDataInputs ==
    FullSampleData
    \cup {DictDrop([sample_detail |-> BaseDetail, location |-> 1, condition |-> 1], k) :
            k \in {"sample_detail", "location", "condition"}}

\* The bodies of PATCH /samples/<id>/update/: one field, or detail and location.
PatchDataInputs ==
    {[sample_detail |-> sd] : sd \in DetailInputs}
    \cup {[location |-> l] : l \in LocationIds}
    \cup {[condition |-> c] : c \in ConditionIds}
    \cup {[sample_detail |-> BaseDetail, location |-> l] : l \in LocationIds}

ValidLocationData ==
    [coordinates |-> [latitude |-> 52, longitude |-> 13], region |-> "Brandenburg",
     country |-> "Germany", site_type |-> "forest"]

LocationInputs ==
    {ValidLocationData,
     DictDrop(ValidLocationData, "country"),
     [ValidLocationData EXCEPT !.coordinates.latitude = 91]}

ValidConditionData ==
    [soil_composition |-> [pH |-> 7, nutrients |-> "rich", type |-> "loamy"],
     temperature |-> 18, humidity |-> 60, altitude |-> 40]

ConditionInputs ==
    {ValidConditionData,
     DictDrop(ValidConditionData, "altitude"),
     [ValidConditionData EXCEPT !.soil_composition.pH = 15]}

\* ------------------------------------------------------------ transactions
\* The tables a sample request writes inside its transaction, as one value.
Tables ==
    [samples |-> samples, growth |-> growth, links |-> links, audit |-> audit, seq |-> seq]

Commit(d) ==
    /\ samples' = d.samples
    /\ growth' = d.growth
    /\ links' = d.links
    /\ audit' = d.audit
    /\ seq' = d.seq

\* The outcome of one write: it went through and left db, or it raised error.
Ok(d) == [ok |-> TRUE, db |-> d, error |-> NoError]
Raise(d, e) == [ok |-> FALSE, db |-> d, error |-> e]

\* The first write of steps that raises, or the write number `fail` when the
\* storage backend fails there; 0 when every write goes through.
FirstFailure(steps, fail) ==
    LET bad == {i \in DOMAIN steps : ~steps[i].ok \/ i = fail} IN
    IF bad = {} THEN 0 ELSE CHOOSE i \in bad : \A j \in bad : i <= j

\* The writes made without a transaction around them: those before the
\* failure stay.
transaction_autocommit(before, steps, fail) ==
    LET bad == FirstFailure(steps, fail) IN
    IF bad = 0 THEN Ok(steps[Len(steps)].db)
    ELSE Raise(IF bad = 1 THEN before ELSE steps[bad - 1].db,
               IF steps[bad].ok THEN "database error" ELSE steps[bad].error)

\* `with transaction.atomic():` around the writes `steps` (each made on the
\* tables the one before it left): all of them, or none when one raises.
transaction_atomic(before, steps, fail) ==
    LET bad == FirstFailure(steps, fail) IN
    IF bad = 0 THEN Ok(steps[Len(steps)].db)
    ELSE Raise(before, IF steps[bad].ok THEN "database error" ELSE steps[bad].error)

\* ------------------------------------------------------------ entity store
\* A SampleAuditLog.objects.create that writes no row.
SampleAuditLog_create_nothing(d, sample_id, action, details) == Ok(d)

\* SampleAuditLog.objects.create(sample_id=..., action=..., details=...)
SampleAuditLog_create(d, sample_id, action, details) ==
    Ok([d EXCEPT !.audit = Append(@, [sample_id |-> sample_id, action |-> action,
                                      details |-> details])])

\* A PlantSample.save that does not call full_clean.
PlantSample_full_clean_skipped(row) == NoError

\* PlantSample.full_clean: the foreign keys name existing rows, then clean().
PlantSample_full_clean(row) ==
    IF row.location \notin DOMAIN locations THEN "location instance does not exist"
    ELSE IF row.condition \notin DOMAIN conditions THEN "condition instance does not exist"
    ELSE PlantSample_clean(row.sample_detail, now)

\* PlantSample.save were sample_id handed out as the highest stored id plus
\* one instead of by the AutoField's counter.
PlantSample_save_max_id(d, pk, row) ==
    LET filled == [row EXCEPT !.sample_detail = AutoFillSamplingDate(@, now)]
        err == PlantSample_full_clean(filled)
        highest == IF DOMAIN d.samples = {} THEN 0
                   ELSE CHOOSE m \in DOMAIN d.samples : \A x \in DOMAIN d.samples : x <= m
        id == IF pk = 0 THEN highest + 1 ELSE pk
        stored == [filled EXCEPT !.created_at = IF pk = 0 THEN now ELSE @]
    IN  IF err # NoError THEN Raise(d, err)
        ELSE Ok([d EXCEPT !.samples = DictSet(@, id, stored),
                          !.seq.sample = IF pk = 0 THEN id ELSE @])

\* PlantSample.save of the instance `row`; pk = 0 is an instance not saved yet.
PlantSample_save(d, pk, row) ==
    LET filled == [row EXCEPT !.sample_detail = AutoFillSamplingDate(@, now)]
        err == PlantSample_full_clean(filled)
        id == IF pk = 0 THEN d.seq.sample + 1 ELSE pk
        stored == [filled EXCEPT !.created_at = IF pk = 0 THEN now ELSE @]
    IN  IF err # NoError THEN Raise(d, err)
        ELSE Ok([d EXCEPT !.samples = DictSet(@, id, stored),
                          !.seq.sample = IF pk = 0 THEN id ELSE @])

\* A soft delete that sets is_deleted and leaves deleted_at as it was.
PlantSample_soft_delete_no_timestamp(d, pk, self) ==
    PlantSample_save(d, pk, [self EXCEPT !.is_deleted = TRUE])

\* A soft delete that also removes the sample's growth metrics and links.
PlantSample_soft_delete_with_children(d, pk, self) ==
    PlantSample_save(
        [d EXCEPT !.growth = Without(@, {g \in DOMAIN @ : @[g].sample = pk}),
                  !.links = Without(@, {l \in DOMAIN @ : @[l].sample = pk})],
        pk, [self EXCEPT !.is_deleted = TRUE, !.deleted_at = Some(now)])

\* PlantSample.soft_delete on the loaded instance `self`.
PlantSample_soft_delete(d, pk, self) ==
    PlantSample_save(d, pk, [self EXCEPT !.is_deleted = TRUE, !.deleted_at = Some(now)])

\* PlantSample.delete: overridden to soft-delete.
PlantSample_delete(d, pk, self) == PlantSample_soft_delete(d, pk, self)

\* self.growth_metrics.all().delete()
GrowthMetrics_delete_of(d, pk) ==
    Ok([d EXCEPT !.growth = Without(@, {g \in DOMAIN @ : @[g].sample = pk})])

\* SampleResearchers.objects.filter(sample=self).delete()
SampleResearchers_delete_of(d, pk) ==
    Ok([d EXCEPT !.links = Without(@, {l \in DOMAIN @ : @[l].sample = pk})])

\* super().delete() of a PlantSample were SampleAuditLog.sample_id a foreign
\* key with on_delete=CASCADE: the sample's audit entries go with the row.
Model_delete_cascade_audit(d, pk) ==
    Ok([d EXCEPT !.growth = Without(@, {g \in DOMAIN @ : @[g].sample = pk}),
                 !.links = Without(@, {l \in DOMAIN @ : @[l].sample = pk}),
                 !.samples = Without(@, {pk}),
                 !.audit = SelectSeq(@, LAMBDA e : e.sample_id # pk)])

\* super().delete() of a PlantSample: the row, and by on_delete=CASCADE the
\* growth metrics and researcher links that still reference it.
Model_delete(d, pk) ==
    Ok([d EXCEPT !.growth = Without(@, {g \in DOMAIN @ : @[g].sample = pk}),
                 !.links = Without(@, {l \in DOMAIN @ : @[l].sample = pk}),
                 !.samples = Without(@, {pk})])

\* A hard delete that ends in self.delete(), the overridden soft delete.
PlantSample_hard_delete_soft(d, pk) ==
    LET s1 == GrowthMetrics_delete_of(d, pk)
        s2 == SampleResearchers_delete_of(s1.db, pk)
        s3 == PlantSample_delete(s2.db, pk, s2.db.samples[pk])
    IN  <<s1, s2, s3>>

\* A hard delete that removes the growth metrics and the links of the
\* sample and leaves its row.
PlantSample_hard_delete_children_only(d, pk) ==
    LET s1 == GrowthMetrics_delete_of(d, pk)
        s2 == SampleResearchers_delete_of(s1.db, pk)
    IN  <<s1, s2, Ok(s2.db)>>

\* A hard delete that removes the row first and its children after it.
PlantSample_hard_delete_row_first(d, pk) ==
    LET s1 == Ok([d EXCEPT !.samples = Without(@, {pk})])
        s2 == GrowthMetrics_delete_of(s1.db, pk)
        s3 == SampleResearchers_delete_of(s2.db, pk)
    IN  <<s1, s2, s3>>

\* PlantSample.hard_delete: its three writes, in order.
PlantSample_hard_delete(d, pk) ==
    LET s1 == GrowthMetrics_delete_of(d, pk)
        s2 == SampleResearchers_delete_of(s1.db, pk)
        s3 == Model_delete(s2.db, pk)
    IN  <<s1, s2, s3>>

\* -------------------------------------------------------- query/projection
Response(op, id, status, body) == [op |-> op, id |-> id, status |-> status, body |-> body]

\* get_object_or_404 found nothing.
NotFound == [detail |-> "Not found."]

\* sample_detail.get('species', 'Unknown')
SpeciesOrUnknown(sample_detail) ==
    IF "species" \in DOMAIN sample_detail THEN sample_detail["species"] ELSE "Unknown"

\* PlantSampleDetailSerializer.get_researchers
get_researchers(d, pk) ==
    {[researcher_id |-> d.links[l].researcher,
      name |-> researchers[d.links[l].researcher].name,
      email |-> researchers[d.links[l].researcher].email,
      role |-> d.links[l].role] : l \in {x \in DOMAIN d.links : d.links[x].sample = pk}}

\* PlantSampleDetailSerializer.get_status
get_status(obj) == IF obj.is_deleted THEN "deleted" ELSE "active"

\* PlantSampleDetailSerializer(obj).data for the instance obj with key pk.
PlantSampleDetailSerializer_data(d, pk, obj) ==
    [sample_id |-> pk,
     sample_detail |-> obj.sample_detail,
     location |-> obj.location,
     location_data |-> [location_id |-> obj.location,
                        location_data |-> locations[obj.location].location_data],
     condition |-> obj.condition,
     condition_data |-> [condition_id |-> obj.condition,
                         condition_data |-> conditions[obj.condition].condition_data],
     researchers |-> get_researchers(d, pk),
     growth_measurements |->
        {[growth_id |-> g, sample |-> pk, height |-> d.growth[g].height,
          leaf_count |-> d.growth[g].leaf_count,
          stem_diameter |-> d.growth[g].stem_diameter,
          health_status |-> d.growth[g].health_status,
          measured_at |-> d.growth[g].measured_at] :
            g \in {x \in DOMAIN d.growth : d.growth[x].sample = pk}},
     status |-> get_status(obj),
     created_at |-> obj.created_at]

\* PlantSampleListView: the rows with is_deleted=False, newest first.  The
\* ids in created_at order; rows created at the same time keep id order.
RECURSIVE NewestFirst(_, _)
NewestFirst(rows, ids) ==
    IF ids = {} THEN <<>>
    ELSE LET first == CHOOSE i \in ids : \A j \in ids :
                        \/ rows[i].created_at > rows[j].created_at
                        \/ rows[i].created_at = rows[j].created_at /\ i >= j
         IN  <<first>> \o NewestFirst(rows, ids \ {first})

\* The queryset of a listing that leaves filter(is_deleted=False) out.
PlantSampleListView_queryset_all == NewestFirst(samples, DOMAIN samples)

PlantSampleListView_queryset ==
    NewestFirst(samples, {i \in DOMAIN samples : ~samples[i].is_deleted})

\* sample_detail.get(key, '') of PlantSampleListSerializer's method fields
DetailOrEmpty(sample_detail, key) ==
    IF key \in DOMAIN sample_detail THEN sample_detail[key] ELSE ""

\* PlantSampleListSerializer(obj).data for the row obj with key pk.
PlantSampleListSerializer_data(pk, obj) ==
    [sample_id |-> pk,
     species |-> DetailOrEmpty(obj.sample_detail, "species"),
     common_name |-> DetailOrEmpty(obj.sample_detail, "common_name"),
     sampling_date |-> DetailOrEmpty(obj.sample_detail, "sampling_date"),
     created_at |-> obj.created_at]

\* PlantSampleListView GET (ListAPIView.list)
PlantSampleListView_get ==
    /\ resp' = Response("sample_list", 0, 200,
                    [k \in DOMAIN PlantSampleListView_queryset |->
                        PlantSampleListSerializer_data(PlantSampleListView_queryset[k],
                            samples[PlantSampleListView_queryset[k]])])
    /\ UNCHANGED <<locations, conditions, researchers, samples, links, growth, audit, seq, now, pending>>

\* SampleAuditLogBySampleView.get_queryset: the entries of one sample_id,
\* newest first (log ids, descending).
RECURSIVE Reversed(_)
Reversed(sq) == IF sq = <<>> THEN <<>> ELSE Reversed(Tail(sq)) \o <<Head(sq)>>

SampleAuditLogBySampleView_get_queryset(log, sample_id) ==
    Reversed(SelectSeq(log, LAMBDA e : e.sample_id = sample_id))

\* ----------------------------------------------------- sample serializers
\* The fields of PlantSampleCreateSerializer / PlantSampleUpdateSerializer.
SampleFields == {"sample_detail", "location", "condition"}

\* The errors of the fields both sample serializers share, detail_error
\* being what validate_sample_detail said: field -> message.
SampleFieldErrors(data, partial, detail_error) ==
    LET missing == IF partial THEN {} ELSE SampleFields \ DOMAIN data
        badpk == {f \in (DOMAIN data) \cap {"location", "condition"} :
                    data[f] \notin DOMAIN (IF f = "location" THEN locations ELSE conditions)}
        baddetail == IF "sample_detail" \in DOMAIN data /\ detail_error # NoError
                     THEN {"sample_detail"} ELSE {}
    IN  [f \in missing \cup badpk \cup baddetail |->
            IF f \in missing THEN "This field is required."
            ELSE IF f \in badpk THEN "Invalid pk - object does not exist."
            ELSE detail_error]

\* PlantSampleCreateSerializer(data=...).errors
PlantSampleCreateSerializer_errors(data) ==
    SampleFieldErrors(data, FALSE,
        IF "sample_detail" \in DOMAIN data
        THEN PlantSampleCreateSerializer_validate_sample_detail(data["sample_detail"])
        ELSE NoError)

\* PlantSampleUpdateSerializer(sample, data=..., partial=...).errors
PlantSampleUpdateSerializer_errors(data, partial) ==
    SampleFieldErrors(data, partial,
        IF "sample_detail" \in DOMAIN data
        THEN PlantSampleUpdateSerializer_validate_sample_detail(data["sample_detail"])
        ELSE NoError)

\* serializer.save() of the create serializer: PlantSample.objects.create.
PlantSampleCreateSerializer_save(d, data) ==
    PlantSample_save(d, 0,
        [sample_detail |-> data["sample_detail"], location |-> data["location"],
         condition |-> data["condition"], is_deleted |-> FALSE, deleted_at |-> Null,
         created_at |-> now])

\* serializer.save() of the update serializer: each validated field is set
\* on the instance, whole, and the instance saved.
PlantSampleUpdateSerializer_save(d, pk, instance, data) ==
    PlantSample_save(d, pk,
        [f \in DOMAIN instance |-> IF f \in DOMAIN data THEN data[f] ELSE instance[f]])

\* ------------------------------------------------------------ sample views
\* PlantSampleCreateView.post
PlantSampleCreateView_post(data, fail) ==
    LET errors == PlantSampleCreateSerializer_errors(data) IN
    /\ IF DOMAIN errors # {}
       THEN /\ resp' = Response("sample_create", 0, 400, [errors |-> DOMAIN errors])
            /\ UNCHANGED <<samples, growth, links, audit, seq>>
       ELSE /\ seq.sample < MaxSamples
            /\ Len(audit) < MaxAudit
            /\ LET s1 == PlantSampleCreateSerializer_save(Tables, data)
                   id == s1.db.seq.sample
                   s2 == SampleAuditLog_create(s1.db, id, "CREATED",
                            [species |-> SpeciesOrUnknown(s1.db.samples[id].sample_detail),
                             location_id |-> s1.db.samples[id].location])
                   tx == transaction_atomic(Tables, IF s1.ok THEN <<s1, s2>> ELSE <<s1>>, fail)
               IN  /\ Commit(tx.db)
                   /\ resp' = IF tx.ok
                        THEN Response("sample_create", id, 201,
                                PlantSampleDetailSerializer_data(tx.db, id, tx.db.samples[id]))
                        ELSE Response("sample_create", 0, 400, [error |-> tx.error])
    /\ UNCHANGED <<locations, conditions, researchers, now, pending>>

\* A get that serializes the row whatever its is_deleted says.
PlantSampleDetailView_get_response_unchecked(d, sample_id) ==
    IF sample_id \notin DOMAIN d.samples
    THEN Response("sample_get", sample_id, 404, NotFound)
    ELSE Response("sample_get", sample_id, 200,
            PlantSampleDetailSerializer_data(d, sample_id, d.samples[sample_id]))

\* PlantSampleDetailView.get: what it answers on the tables d.
PlantSampleDetailView_get_response(d, sample_id) ==
    IF sample_id \notin DOMAIN d.samples
    THEN Response("sample_get", sample_id, 404, NotFound)
    ELSE IF d.samples[sample_id].is_deleted
    THEN Response("sample_get", sample_id, 200,
            [message |-> "Sample deleted", sample_id |-> sample_id, status |-> "deleted"])
    ELSE Response("sample_get", sample_id, 200,
            PlantSampleDetailSerializer_data(d, sample_id, d.samples[sample_id]))

\* PlantSampleDetailView.get
PlantSampleDetailView_get(sample_id) ==
    /\ resp' = PlantSampleDetailView_get_response(Tables, sample_id)
    /\ UNCHANGED <<locations, conditions, researchers, samples, links, growth, audit, seq, now, pending>>

\* PlantSampleDetailView.delete with the check of is_deleted left out.
PlantSampleDetailView_delete_unchecked(sample_id, fail) ==
    /\ IF sample_id \notin DOMAIN samples
       THEN /\ resp' = Response("sample_delete", sample_id, 404, NotFound)
            /\ UNCHANGED <<samples, growth, links, audit, seq>>
       ELSE /\ Len(audit) < MaxAudit
            /\ LET sample == samples[sample_id]
                   species == SpeciesOrUnknown(sample.sample_detail)
                   s1 == SampleAuditLog_create(Tables, sample_id, "DELETED",
                            [species |-> species])
                   s2 == PlantSample_delete(s1.db, sample_id, sample)
                   tx == transaction_atomic(Tables, <<s1, s2>>, fail)
               IN  /\ Commit(tx.db)
                   /\ resp' = IF tx.ok
                        THEN Response("sample_delete", sample_id, 200,
                                [message |-> "soft deleted successfully",
                                 sample_id |-> sample_id, status |-> "deleted"])
                        ELSE Response("sample_delete", sample_id, 400, [error |-> tx.error])
    /\ UNCHANGED <<locations, conditions, researchers, now, pending>>

\* PlantSampleDetailView.delete: the soft delete.
PlantSampleDetailView_delete(sample_id, fail) ==
    /\ IF sample_id \notin DOMAIN samples
       THEN /\ resp' = Response("sample_delete", sample_id, 404, NotFound)
            /\ UNCHANGED <<samples, growth, links, audit, seq>>
       ELSE IF samples[sample_id].is_deleted
       THEN /\ resp' = Response("sample_delete", sample_id, 200,
                        [message |-> "Sample already deleted", sample_id |-> sample_id,
                         status |-> "deleted"])
            /\ UNCHANGED <<samples, growth, links, audit, seq>>
       ELSE /\ Len(audit) < MaxAudit
            /\ LET sample == samples[sample_id]
                   species == SpeciesOrUnknown(sample.sample_detail)
                   s1 == SampleAuditLog_create(Tables, sample_id, "DELETED",
                            [species |-> species])
                   s2 == PlantSample_delete(s1.db, sample_id, sample)
                   tx == transaction_atomic(Tables, <<s1, s2>>, fail)
               IN  /\ Commit(tx.db)
                   /\ resp' = IF tx.ok
                        THEN Response("sample_delete", sample_id, 200,
                                [message |-> "soft deleted successfully",
                                 sample_id |-> sample_id, status |-> "deleted"])
                        ELSE Response("sample_delete", sample_id, 400, [error |-> tx.error])
    /\ UNCHANGED <<locations, conditions, researchers, now, pending>>

\* The writes of an update that reads old_detail after the save.
UpdateSteps_old_after_save(sample_id, sample, data) ==
    LET s1 == PlantSampleUpdateSerializer_save(Tables, sample_id, sample, data)
        old_detail == s1.db.samples[sample_id].sample_detail
        s2 == SampleAuditLog_create(s1.db, sample_id, "UPDATED",
                [old_detail |-> old_detail,
                 new_detail |-> s1.db.samples[sample_id].sample_detail])
    IN  IF s1.ok THEN <<s1, s2>> ELSE <<s1>>

\* The writes of PlantSampleUpdateView.put and .patch inside the transaction:
\* old_detail is copied, the serializer saved and the update logged.
UpdateSteps(sample_id, sample, data) ==
    LET old_detail == sample.sample_detail
        s1 == PlantSampleUpdateSerializer_save(Tables, sample_id, sample, data)
        s2 == SampleAuditLog_create(s1.db, sample_id, "UPDATED",
                [old_detail |-> old_detail,
                 new_detail |-> s1.db.samples[sample_id].sample_detail])
    IN  IF s1.ok THEN <<s1, s2>> ELSE <<s1>>

\* PlantSampleUpdateView.put with the check of is_deleted left out.
PlantSampleUpdateView_put_unchecked(sample_id, data, fail) ==
    /\ IF sample_id \notin DOMAIN samples
       THEN /\ resp' = Response("sample_put", sample_id, 404, NotFound)
            /\ UNCHANGED <<samples, growth, links, audit, seq>>
       ELSE LET errors == PlantSampleUpdateSerializer_errors(data, FALSE) IN
            IF DOMAIN errors # {}
            THEN /\ resp' = Response("sample_put", sample_id, 400, [errors |-> DOMAIN errors])
                 /\ UNCHANGED <<samples, growth, links, audit, seq>>
            ELSE /\ Len(audit) < MaxAudit
                 /\ LET tx == transaction_atomic(Tables,
                                UpdateSteps(sample_id, samples[sample_id], data), fail)
                    IN  /\ Commit(tx.db)
                        /\ resp' = IF tx.ok
                            THEN Response("sample_put", sample_id, 200,
                                    PlantSampleDetailSerializer_data(tx.db, sample_id,
                                        tx.db.samples[sample_id]))
                            ELSE Response("sample_put", sample_id, 400, [error |-> tx.error])
    /\ UNCHANGED <<locations, conditions, researchers, now, pending>>

\* PlantSampleUpdateView.put
PlantSampleUpdateView_put(sample_id, data, fail) ==
    /\ IF sample_id \notin DOMAIN samples
       THEN /\ resp' = Response("sample_put", sample_id, 404, NotFound)
            /\ UNCHANGED <<samples, growth, links, audit, seq>>
       ELSE IF samples[sample_id].is_deleted
       THEN /\ resp' = Response("sample_put", sample_id, 400,
                        [error |-> "Sample is deleted and cannot be updated"])
            /\ UNCHANGED <<samples, growth, links, audit, seq>>
       ELSE LET errors == PlantSampleUpdateSerializer_errors(data, FALSE) IN
            IF DOMAIN errors # {}
            THEN /\ resp' = Response("sample_put", sample_id, 400, [errors |-> DOMAIN errors])
                 /\ UNCHANGED <<samples, growth, links, audit, seq>>
            ELSE /\ Len(audit) < MaxAudit
                 /\ LET tx == transaction_atomic(Tables,
                                UpdateSteps(sample_id, samples[sample_id], data), fail)
                    IN  /\ Commit(tx.db)
                        /\ resp' = IF tx.ok
                            THEN Response("sample_put", sample_id, 200,
                                    PlantSampleDetailSerializer_data(tx.db, sample_id,
                                        tx.db.samples[sample_id]))
                            ELSE Response("sample_put", sample_id, 400, [error |-> tx.error])
    /\ UNCHANGED <<locations, conditions, researchers, now, pending>>

\* PlantSampleUpdateView.patch with the check of is_deleted left out.
PlantSampleUpdateView_patch_unchecked(sample_id, data, fail) ==
    /\ IF sample_id \notin DOMAIN samples
       THEN /\ resp' = Response("sample_patch", sample_id, 404, NotFound)
            /\ UNCHANGED <<samples, growth, links, audit, seq>>
       ELSE LET errors == PlantSampleUpdateSerializer_errors(data, TRUE) IN
            IF DOMAIN errors # {}
            THEN /\ resp' = Response("sample_patch", sample_id, 400, [errors |-> DOMAIN errors])
                 /\ UNCHANGED <<samples, growth, links, audit, seq>>
            ELSE /\ Len(audit) < MaxAudit
                 /\ LET tx == transaction_atomic(Tables,
                                UpdateSteps(sample_id, samples[sample_id], data), fail)
                    IN  /\ Commit(tx.db)
                        /\ resp' = IF tx.ok
                            THEN Response("sample_patch", sample_id, 200,
                                    PlantSampleDetailSerializer_data(tx.db, sample_id,
                                        tx.db.samples[sample_id]))
                            ELSE Response("sample_patch", sample_id, 400, [error |-> tx.error])
    /\ UNCHANGED <<locations, conditions, researchers, now, pending>>

\* PlantSampleUpdateView.patch
PlantSampleUpdateView_patch(sample_id, data, fail) ==
    /\ IF sample_id \notin DOMAIN samples
       THEN /\ resp' = Response("sample_patch", sample_id, 404, NotFound)
            /\ UNCHANGED <<samples, growth, links, audit, seq>>
       ELSE IF samples[sample_id].is_deleted
       THEN /\ resp' = Response("sample_patch", sample_id, 400,
                        [error |-> "Sample is deleted and cannot be updated"])
            /\ UNCHANGED <<samples, growth, links, audit, seq>>
       ELSE LET errors == PlantSampleUpdateSerializer_errors(data, TRUE) IN
            IF DOMAIN errors # {}
            THEN /\ resp' = Response("sample_patch", sample_id, 400, [errors |-> DOMAIN errors])
                 /\ UNCHANGED <<samples, growth, links, audit, seq>>
            ELSE /\ Len(audit) < MaxAudit
                 /\ LET tx == transaction_atomic(Tables,
                                UpdateSteps(sample_id, samples[sample_id], data), fail)
                    IN  /\ Commit(tx.db)
                        /\ resp' = IF tx.ok
                            THEN Response("sample_patch", sample_id, 200,
                                    PlantSampleDetailSerializer_data(tx.db, sample_id,
                                        tx.db.samples[sample_id]))
                            ELSE Response("sample_patch", sample_id, 400, [error |-> tx.error])
    /\ UNCHANGED <<locations, conditions, researchers, now, pending>>

\* The writes of PlantSampleHardDeleteView.delete inside the transaction, in
\* order: the HARD_DELETED entry, then the writes of sample.hard_delete().
PlantSampleHardDeleteView_steps(d, sample_id) ==
    LET species == SpeciesOrUnknown(d.samples[sample_id].sample_detail)
        s1 == SampleAuditLog_create(d, sample_id, "HARD_DELETED",
                [species |-> species,
                 warning |-> "PERMANENT DELETION - All data removed from database"])
    IN  <<s1>> \o PlantSample_hard_delete(s1.db, sample_id)

\* A hard delete that is open to ACTIVE samples only.
PlantSampleHardDeleteView_delete_active_only(sample_id, fail) ==
    /\ IF sample_id \notin DOMAIN samples
       THEN /\ resp' = Response("sample_hard_delete", sample_id, 404, NotFound)
            /\ UNCHANGED <<samples, growth, links, audit, seq>>
       ELSE IF samples[sample_id].is_deleted
       THEN /\ resp' = Response("sample_hard_delete", sample_id, 400,
                        [error |-> "Sample already deleted"])
            /\ UNCHANGED <<samples, growth, links, audit, seq>>
       ELSE /\ Len(audit) < MaxAudit
            /\ LET tx == transaction_atomic(Tables,
                            PlantSampleHardDeleteView_steps(Tables, sample_id), fail)
               IN  /\ Commit(tx.db)
                   /\ resp' = IF tx.ok
                        THEN Response("sample_hard_delete", sample_id, 200,
                                [message |-> "permanently deleted from database",
                                 sample_id |-> sample_id, deletion_type |-> "permanent"])
                        ELSE Response("sample_hard_delete", sample_id, 400,
                                [error |-> tx.error])
    /\ UNCHANGED <<locations, conditions, researchers, now, pending>>

\* PlantSampleHardDeleteView.delete
PlantSampleHardDeleteView_delete(sample_id, fail) ==
    /\ IF sample_id \notin DOMAIN samples
       THEN /\ resp' = Response("sample_hard_delete", sample_id, 404, NotFound)
            /\ UNCHANGED <<samples, growth, links, audit, seq>>
       ELSE /\ Len(audit) < MaxAudit
            /\ LET tx == transaction_atomic(Tables,
                            PlantSampleHardDeleteView_steps(Tables, sample_id), fail)
               IN  /\ Commit(tx.db)
                   /\ resp' = IF tx.ok
                        THEN Response("sample_hard_delete", sample_id, 200,
                                [message |-> "permanently deleted from database",
                                 sample_id |-> sample_id, deletion_type |-> "permanent"])
                        ELSE Response("sample_hard_delete", sample_id, 400,
                                [error |-> tx.error])
    /\ UNCHANGED <<locations, conditions, researchers, now, pending>>

\* ------------------------------------------------ location/condition views
\* SamplingLocationListCreateView POST (ListCreateAPIView.create): the
\* serializer's validation, then SamplingLocation.save with full_clean.
SamplingLocationListCreateView_post(location_data) ==
    /\ IF validate_location_data(location_data) # NoError
       THEN /\ resp' = Response("location_create", 0, 400,
                        [errors |-> {"location_data"}])
            /\ UNCHANGED <<locations, seq>>
       ELSE IF SamplingLocation_clean(location_data) # NoError
       THEN /\ resp' = Response("location_create", 0, 500,
                        [error |-> SamplingLocation_clean(location_data)])
            /\ UNCHANGED <<locations, seq>>
       ELSE /\ seq.location < MaxLocations
            /\ locations' = DictSet(locations, seq.location + 1,
                                [location_data |-> location_data])
            /\ seq' = [seq EXCEPT !.location = @ + 1]
            /\ resp' = Response("location_create", seq.location + 1, 201,
                            [location_data |-> location_data])
    /\ UNCHANGED <<conditions, researchers, samples, links, growth, audit, now, pending>>

\* The samples that keep a location row from being deleted when only the
\* samples with is_deleted=False are looked at.
LocationProtectedByActive(location_id) ==
    {i \in DOMAIN samples : samples[i].location = location_id /\ ~samples[i].is_deleted}

\* PlantSample.location, on_delete=models.RESTRICT: the samples that keep a
\* location row from being deleted.
LocationProtectedBy(location_id) ==
    {i \in DOMAIN samples : samples[i].location = location_id}

\* SamplingLocation.delete() with on_delete=CASCADE on PlantSample.location:
\* the referencing samples and their children go with the row.
SamplingLocation_delete_cascade(location_id) ==
    LET gone == {i \in DOMAIN samples : samples[i].location = location_id} IN
    /\ locations' = Without(locations, {location_id})
    /\ samples' = Without(samples, gone)
    /\ growth' = Without(growth, {g \in DOMAIN growth : growth[g].sample \in gone})
    /\ links' = Without(links, {l \in DOMAIN links : links[l].sample \in gone})
    /\ resp' = Response("location_delete", location_id, 204, Empty)

\* SamplingLocation.delete() with on_delete=DO_NOTHING on PlantSample.location.
SamplingLocation_delete_do_nothing(location_id) ==
    /\ locations' = Without(locations, {location_id})
    /\ resp' = Response("location_delete", location_id, 204, Empty)
    /\ UNCHANGED <<samples, growth, links>>

\* SamplingLocation.delete() (instance.delete() of DestroyModelMixin): the
\* collector raises RestrictedError while a sample references the row.
SamplingLocation_delete(location_id) ==
    IF LocationProtectedBy(location_id) # {}
    THEN /\ resp' = Response("location_delete", location_id, 500,
                        [error |-> "RestrictedError"])
         /\ UNCHANGED <<locations, samples, growth, links>>
    ELSE /\ locations' = Without(locations, {location_id})
         /\ resp' = Response("location_delete", location_id, 204, Empty)
         /\ UNCHANGED <<samples, growth, links>>

\* SamplingLocationDetailView DELETE
SamplingLocationDetailView_delete(location_id) ==
    /\ IF location_id \notin DOMAIN locations
       THEN /\ resp' = Response("location_delete", location_id, 404, NotFound)
            /\ UNCHANGED <<locations, samples, growth, links>>
       ELSE SamplingLocation_delete(location_id)
    /\ UNCHANGED <<conditions, researchers, audit, seq, now, pending>>

\* EnvironmentalConditionsListCreateView POST
EnvironmentalConditionsListCreateView_post(condition_data) ==
    /\ IF validate_condition_data(condition_data) # NoError
       THEN /\ resp' = Response("condition_create", 0, 400,
                        [errors |-> {"condition_data"}])
            /\ UNCHANGED <<conditions, seq>>
       ELSE IF EnvironmentalConditions_clean(condition_data) # NoError
       THEN /\ resp' = Response("condition_create", 0, 500,
                        [error |-> EnvironmentalConditions_clean(condition_data)])
            /\ UNCHANGED <<conditions, seq>>
       ELSE /\ seq.condition < MaxConditions
            /\ conditions' = DictSet(conditions, seq.condition + 1,
                                [condition_data |-> condition_data])
            /\ seq' = [seq EXCEPT !.condition = @ + 1]
            /\ resp' = Response("condition_create", seq.condition + 1, 201,
                            [condition_data |-> condition_data])
    /\ UNCHANGED <<locations, researchers, samples, links, growth, audit, now, pending>>

\* PlantSample.condition, on_delete=models.RESTRICT
ConditionProtectedBy(condition_id) ==
    {i \in DOMAIN samples : samples[i].condition = condition_id}

\* EnvironmentalConditions.delete()
EnvironmentalConditions_delete(condition_id) ==
    IF ConditionProtectedBy(condition_id) # {}
    THEN /\ resp' = Response("condition_delete", condition_id, 500,
                        [error |-> "RestrictedError"])
         /\ UNCHANGED conditions
    ELSE /\ conditions' = Without(conditions, {condition_id})
         /\ resp' = Response("condition_delete", condition_id, 204, Empty)

\* EnvironmentalConditionsDetailView DELETE
EnvironmentalConditionsDetailView_delete(condition_id) ==
    /\ IF condition_id \notin DOMAIN conditions
       THEN /\ resp' = Response("condition_delete", condition_id, 404, NotFound)
            /\ UNCHANGED conditions
       ELSE EnvironmentalConditions_delete(condition_id)
    /\ UNCHANGED <<locations, researchers, samples, links, growth, audit, seq, now, pending>>

\* --------------------------------------------------------- researcher views
ResearcherInputs ==
    {[name |-> "Ada Stone", email |-> "ada@example.org"],
     [name |-> " ", email |-> "ada@example.org"],
     [name |-> "Ben Marsh", email |-> "not-an-email"]}

\* EmailValidator on the strings the model draws.
EmailValid(email) == email \in {"ada@example.org", "ben@example.org"}

\* ResearcherInfoSerializer(data=...).errors: field -> message.
ResearcherInfoSerializer_errors(data, pk) ==
    LET blank == IF StripIsEmpty(data.name) THEN {"name"} ELSE {}
        bademail == IF ~EmailValid(data.email) THEN {"email"} ELSE {}
        taken == IF \E r \in (DOMAIN researchers) \ {pk} : researchers[r].email = data.email
                 THEN {"email"} ELSE {}
    IN  [f \in blank \cup bademail \cup taken |->
            IF f = "name" THEN "This field may not be blank."
            ELSE IF ~EmailValid(data.email) THEN "Enter a valid email address."
            ELSE "researcher info with this email already exists."]

\* ResearcherInfoListCreateView POST
ResearcherInfoListCreateView_post(data) ==
    LET errors == ResearcherInfoSerializer_errors(data, 0) IN
    /\ IF DOMAIN errors # {}
       THEN /\ resp' = Response("researcher_create", 0, 400, [errors |-> DOMAIN errors])
            /\ UNCHANGED <<researchers, seq>>
       ELSE /\ seq.researcher < MaxResearchers
            /\ ResearcherInfo_clean(data.name) = NoError
            /\ researchers' = DictSet(researchers, seq.researcher + 1,
                                [name |-> data.name, email |-> data.email])
            /\ seq' = [seq EXCEPT !.researcher = @ + 1]
            /\ resp' = Response("researcher_create", seq.researcher + 1, 201,
                            [name |-> data.name, email |-> data.email])
    /\ UNCHANGED <<locations, conditions, samples, links, growth, audit, now, pending>>

\* The bodies of PUT and PATCH /researchers/<id>/: every field, or the name
\* or the email alone.
ResearcherUpdateInputs ==
    {[name |-> "Ada Stone", email |-> "ada@example.org"],
     [name |-> "Ben Marsh", email |-> "ben@example.org"],
     [name |-> "Ada Stone", email |-> "ben@example.org"],
     [name |-> " ", email |-> "ada@example.org"],
     [name |-> ""], [name |-> " "], [name |-> "Ben Marsh"],
     [email |-> "ada@example.org"], [email |-> "ben@example.org"],
     [email |-> "not-an-email"]}

\* ResearcherInfoSerializer errors with unique=True left out of email.
ResearcherInfoSerializer_update_errors_no_unique(pk, data, partial) ==
    LET missing == IF partial THEN {} ELSE {"name", "email"} \ DOMAIN data
        blank == IF "name" \in DOMAIN data /\ StripIsEmpty(data["name"])
                 THEN {"name"} ELSE {}
        bademail == IF "email" \in DOMAIN data /\ ~EmailValid(data["email"])
                    THEN {"email"} ELSE {}
    IN  [f \in missing \cup blank \cup bademail |->
            IF f \in missing THEN "This field is required."
            ELSE IF f = "name" THEN "This field may not be blank."
            ELSE "Enter a valid email address."]

\* ResearcherInfoSerializer(instance, data=..., partial=...).errors for the
\* row with key pk: the UniqueValidator of email looks at the other rows.
ResearcherInfoSerializer_update_errors(pk, data, partial) ==
    LET missing == IF partial THEN {} ELSE {"name", "email"} \ DOMAIN data
        blank == IF "name" \in DOMAIN data /\ StripIsEmpty(data["name"])
                 THEN {"name"} ELSE {}
        bademail == IF "email" \in DOMAIN data /\ ~EmailValid(data["email"])
                    THEN {"email"} ELSE {}
        taken == IF "email" \in DOMAIN data
                    /\ \E r \in (DOMAIN researchers) \ {pk} :
                            researchers[r].email = data["email"]
                 THEN {"email"} ELSE {}
    IN  [f \in missing \cup blank \cup bademail \cup taken |->
            IF f \in missing THEN "This field is required."
            ELSE IF f = "name" THEN "This field may not be blank."
            ELSE IF ~EmailValid(data["email"]) THEN "Enter a valid email address."
            ELSE "researcher info with this email already exists."]

\* ResearcherInfoDetailView PUT (partial = FALSE) and PATCH (partial =
\* TRUE): the serializer's validation, then ResearcherInfo.save with
\* full_clean on the row with the validated fields set.
ResearcherInfoDetailView_update(researcher_id, data, partial) ==
    /\ IF researcher_id \notin DOMAIN researchers
       THEN /\ resp' = Response("researcher_update", researcher_id, 404, NotFound)
            /\ UNCHANGED researchers
       ELSE LET errors == ResearcherInfoSerializer_update_errors(researcher_id, data, partial)
                row == [f \in DOMAIN researchers[researcher_id] |->
                            IF f \in DOMAIN data THEN data[f]
                            ELSE researchers[researcher_id][f]]
            IN  IF DOMAIN errors # {}
                THEN /\ resp' = Response("researcher_update", researcher_id, 400,
                                    [errors |-> DOMAIN errors])
                     /\ UNCHANGED researchers
                ELSE IF ResearcherInfo_clean(row.name) # NoError
                THEN /\ resp' = Response("researcher_update", researcher_id, 500,
                                    [error |-> ResearcherInfo_clean(row.name)])
                     /\ UNCHANGED researchers
                ELSE /\ researchers' = [researchers EXCEPT ![researcher_id] = row]
                     /\ resp' = Response("researcher_update", researcher_id, 200, row)
    /\ UNCHANGED <<locations, conditions, samples, links, growth, audit, seq, now, pending>>

\* ResearcherInfoDetailView DELETE were SampleResearchers.researcher
\* on_delete=DO_NOTHING: the researcher's links stay.
ResearcherInfoDetailView_delete_keep_links(researcher_id) ==
    /\ IF researcher_id \notin DOMAIN researchers
       THEN /\ resp' = Response("researcher_delete", researcher_id, 404, NotFound)
            /\ UNCHANGED <<researchers, links>>
       ELSE /\ researchers' = Without(researchers, {researcher_id})
            /\ UNCHANGED links
            /\ resp' = Response("researcher_delete", researcher_id, 204, Empty)
    /\ UNCHANGED <<locations, conditions, samples, growth, audit, seq, now, pending>>

\* ResearcherInfoDetailView DELETE: SampleResearchers.researcher is
\* on_delete=CASCADE, so the researcher's links go with the row.
ResearcherInfoDetailView_delete(researcher_id) ==
    /\ IF researcher_id \notin DOMAIN researchers
       THEN /\ resp' = Response("researcher_delete", researcher_id, 404, NotFound)
            /\ UNCHANGED <<researchers, links>>
       ELSE /\ researchers' = Without(researchers, {researcher_id})
            /\ links' = Without(links,
                            {l \in DOMAIN links : links[l].researcher = researcher_id})
            /\ resp' = Response("researcher_delete", researcher_id, 204, Empty)
    /\ UNCHANGED <<locations, conditions, samples, growth, audit, seq, now, pending>>

\* ------------------------------------------------- sample-researcher views
LinkInputs ==
    {[sample |-> sm, researcher |-> r, role |-> role] :
        sm \in SampleIds, r \in ResearcherIds, role \in {Some("lead_researcher"), Some("chief")}}

\* SampleResearchersCreateSerializer(data=...).errors: field -> message;
\* non_field_errors is the UniqueTogetherValidator of unique_together, run
\* once every field is valid.
SampleResearchersCreateSerializer_errors(data) ==
    LET badsample == IF data.sample \notin DOMAIN samples THEN {"sample"} ELSE {}
        badres == IF data.researcher \notin DOMAIN researchers THEN {"researcher"} ELSE {}
        badrole == IF data.role # Null /\ data.role[1] \notin ROLE_CHOICES
                   THEN {"role"} ELSE {}
        dup == IF badsample \cup badres \cup badrole = {}
                    /\ \E l \in DOMAIN links :
                        links[l].sample = data.sample /\ links[l].researcher = data.researcher
               THEN {"non_field_errors"} ELSE {}
    IN  [f \in badsample \cup badres \cup badrole \cup dup |->
            IF f = "role" THEN "is not a valid choice."
            ELSE IF f = "non_field_errors"
                THEN "The fields sample, researcher must make a unique set."
            ELSE "Invalid pk - object does not exist."]

\* SampleResearchersCreateView.post
SampleResearchersCreateView_post(data) ==
    LET errors == SampleResearchersCreateSerializer_errors(data) IN
    /\ IF DOMAIN errors # {}
       THEN /\ resp' = Response("link_create", 0, 400, [errors |-> DOMAIN errors])
            /\ UNCHANGED <<links, seq>>
       ELSE /\ seq.link < MaxLinks
            /\ links' = DictSet(links, seq.link + 1,
                            [sample |-> data.sample, researcher |-> data.researcher,
                             role |-> data.role])
            /\ seq' = [seq EXCEPT !.link = @ + 1]
            /\ resp' = Response("link_create", seq.link + 1, 201,
                            [sample |-> data.sample, researcher |-> data.researcher])
    /\ UNCHANGED <<locations, conditions, researchers, samples, growth, audit, now, pending>>

\* The bodies of PUT and PATCH /sample-researchers/<id>/: every field, or
\* the sample or the role alone.
LinkUpdateInputs ==
    LinkInputs
    \cup {[sample |-> sm] : sm \in SampleIds}
    \cup {[role |-> Some("supervisor")]}

\* SampleResearchersSerializer errors with unique_together left out of Meta.
SampleResearchersSerializer_errors_no_unique(pk, data, partial) ==
    LET missing == IF partial THEN {} ELSE {"sample", "researcher"} \ DOMAIN data
        badsample == IF "sample" \in DOMAIN data /\ data["sample"] \notin DOMAIN samples
                     THEN {"sample"} ELSE {}
        badres == IF "researcher" \in DOMAIN data
                        /\ data["researcher"] \notin DOMAIN researchers
                  THEN {"researcher"} ELSE {}
        badrole == IF "role" \in DOMAIN data /\ data["role"] # Null
                        /\ data["role"][1] \notin ROLE_CHOICES
                   THEN {"role"} ELSE {}
    IN  [f \in missing \cup badsample \cup badres \cup badrole |->
            IF f \in missing THEN "This field is required."
            ELSE IF f = "role" THEN "is not a valid choice."
            ELSE "Invalid pk - object does not exist."]

\* SampleResearchersSerializer(instance, data=..., partial=...).errors for the
\* row with key pk: the UniqueTogetherValidator looks at the pair the row
\* would have (a field not given keeps the instance's value) among the other
\* rows.
SampleResearchersSerializer_errors(pk, data, partial) ==
    LET instance == links[pk]
        missing == IF partial THEN {} ELSE {"sample", "researcher"} \ DOMAIN data
        badsample == IF "sample" \in DOMAIN data /\ data["sample"] \notin DOMAIN samples
                     THEN {"sample"} ELSE {}
        badres == IF "researcher" \in DOMAIN data
                        /\ data["researcher"] \notin DOMAIN researchers
                  THEN {"researcher"} ELSE {}
        badrole == IF "role" \in DOMAIN data /\ data["role"] # Null
                        /\ data["role"][1] \notin ROLE_CHOICES
                   THEN {"role"} ELSE {}
        sample == IF "sample" \in DOMAIN data THEN data["sample"] ELSE instance.sample
        researcher == IF "researcher" \in DOMAIN data THEN data["researcher"]
                      ELSE instance.researcher
        dup == IF missing \cup badsample \cup badres \cup badrole = {}
                    /\ \E l \in (DOMAIN links) \ {pk} :
                            links[l].sample = sample /\ links[l].researcher = researcher
               THEN {"non_field_errors"} ELSE {}
    IN  [f \in missing \cup badsample \cup badres \cup badrole \cup dup |->
            IF f \in missing THEN "This field is required."
            ELSE IF f = "role" THEN "is not a valid choice."
            ELSE IF f = "non_field_errors"
                THEN "The fields sample, researcher must make a unique set."
            ELSE "Invalid pk - object does not exist."]

\* SampleResearchersDetailView PUT (partial = FALSE) and PATCH (partial =
\* TRUE): UpdateModelMixin.update sets each validated field on the row.
SampleResearchersDetailView_update(id, data, partial) ==
    /\ IF id \notin DOMAIN links
       THEN /\ resp' = Response("link_update", id, 404, NotFound)
            /\ UNCHANGED links
       ELSE LET errors == SampleResearchersSerializer_errors(id, data, partial) IN
            IF DOMAIN errors # {}
            THEN /\ resp' = Response("link_update", id, 400, [errors |-> DOMAIN errors])
                 /\ UNCHANGED links
            ELSE /\ links' = [links EXCEPT ![id] =
                        [f \in DOMAIN @ |-> IF f \in DOMAIN data THEN data[f] ELSE @[f]]]
                 /\ resp' = Response("link_update", id, 200, links'[id])
    /\ UNCHANGED <<locations, conditions, researchers, samples, growth, audit, seq, now, pending>>

\* SampleResearchersDetailView DELETE
SampleResearchersDetailView_delete(id) ==
    /\ IF id \notin DOMAIN links
       THEN /\ resp' = Response("link_delete", id, 404, NotFound)
            /\ UNCHANGED links
       ELSE /\ links' = Without(links, {id})
            /\ resp' = Response("link_delete", id, 204, Empty)
    /\ UNCHANGED <<locations, conditions, researchers, samples, growth, audit, seq, now, pending>>

\* ---------------------------------------------------- growth-metric views
GrowthInputs ==
    {[height |-> Some(12), leaf_count |-> Some(8), stem_diameter |-> Null,
      health_status |-> Some("good")],
     [height |-> Some(201), leaf_count |-> Some(8), stem_diameter |-> Null,
      health_status |-> Some("good")],
     [height |-> Null, leaf_count |-> Null, stem_diameter |-> Some(3),
      health_status |-> Some("wilted")]}

\* A nullable number within [lo, hi].
InRange(v, lo, hi) == v = Null \/ (lo <= v[1] /\ v[1] <= hi)

\* GrowthMetricsSerializer errors were sample a plain integer instead of a
\* PrimaryKeyRelatedField: any sample id passes.
GrowthMetricsSerializer_errors_any_sample(sample_id, data) ==
    LET bad == (IF ~InRange(data.height, 0, 200) THEN {"height"} ELSE {})
            \cup (IF ~InRange(data.leaf_count, 0, 100000) THEN {"leaf_count"} ELSE {})
            \cup (IF ~InRange(data.stem_diameter, 0, 50) THEN {"stem_diameter"} ELSE {})
            \cup (IF data.health_status # Null
                        /\ data.health_status[1] \notin HEALTH_STATUS_CHOICES
                  THEN {"health_status"} ELSE {})
    IN  [f \in bad |->
            IF f = "health_status" THEN "is not a valid choice."
            ELSE "Ensure this value is within its range."]

\* GrowthMetricsSerializer(data=...).errors: field -> message.
GrowthMetricsSerializer_errors(sample_id, data) ==
    LET bad == (IF sample_id \notin DOMAIN samples THEN {"sample"} ELSE {})
            \cup (IF ~InRange(data.height, 0, 200) THEN {"height"} ELSE {})
            \cup (IF ~InRange(data.leaf_count, 0, 100000) THEN {"leaf_count"} ELSE {})
            \cup (IF ~InRange(data.stem_diameter, 0, 50) THEN {"stem_diameter"} ELSE {})
            \cup (IF data.health_status # Null
                        /\ data.health_status[1] \notin HEALTH_STATUS_CHOICES
                  THEN {"health_status"} ELSE {})
    IN  [f \in bad |->
            IF f = "sample" THEN "Invalid pk - object does not exist."
            ELSE IF f = "health_status" THEN "is not a valid choice."
            ELSE "Ensure this value is within its range."]

\* GrowthMetrics.save of a new row: full_clean, whose clean() checks nothing
\* while measured_at is unset, then the insert with measured_at = now.
GrowthMetrics_save(d, sample_id, data) ==
    Ok([d EXCEPT !.growth = DictSet(@, d.seq.growth + 1,
                                [sample |-> sample_id, height |-> data.height,
                                 leaf_count |-> data.leaf_count,
                                 stem_diameter |-> data.stem_diameter,
                                 health_status |-> data.health_status,
                                 measured_at |-> now]),
                 !.seq.growth = @ + 1])

\* GrowthMetricsListCreateView POST
GrowthMetricsListCreateView_post(sample_id, data) ==
    LET errors == GrowthMetricsSerializer_errors(sample_id, data) IN
    /\ IF DOMAIN errors # {}
       THEN /\ resp' = Response("growth_create", 0, 400, [errors |-> DOMAIN errors])
            /\ UNCHANGED <<growth, seq>>
       ELSE /\ seq.growth < MaxGrowth
            /\ growth' = GrowthMetrics_save(Tables, sample_id, data).db.growth
            /\ seq' = GrowthMetrics_save(Tables, sample_id, data).db.seq
            /\ resp' = Response("growth_create", seq.growth + 1, 201, data)
    /\ UNCHANGED <<locations, conditions, researchers, samples, links, audit, now, pending>>

\* The bodies of PUT and PATCH /growth-metrics/<growth_id>/: every field
\* with the sample, the sample alone, or the height alone.
GrowthUpdateInputs ==
    {[sample |-> sm, height |-> Some(12), leaf_count |-> Some(8),
      stem_diameter |-> Null, health_status |-> Some("good")] : sm \in SampleIds}
    \cup {[sample |-> sm] : sm \in SampleIds}
    \cup {[height |-> Some(20)], [height |-> Some(201)]}

\* GrowthMetricsSerializer(instance, data=..., partial=...).errors: sample
\* is the one required field, measured_at is read-only.
GrowthMetricsSerializer_update_errors(data, partial) ==
    LET has(f) == f \in DOMAIN data
        bad == (IF ~partial /\ ~has("sample") THEN {"sample"} ELSE {})
            \cup (IF has("sample") /\ data["sample"] \notin DOMAIN samples
                  THEN {"sample"} ELSE {})
            \cup (IF has("height") /\ ~InRange(data["height"], 0, 200)
                  THEN {"height"} ELSE {})
            \cup (IF has("leaf_count") /\ ~InRange(data["leaf_count"], 0, 100000)
                  THEN {"leaf_count"} ELSE {})
            \cup (IF has("stem_diameter") /\ ~InRange(data["stem_diameter"], 0, 50)
                  THEN {"stem_diameter"} ELSE {})
            \cup (IF has("health_status") /\ data["health_status"] # Null
                        /\ data["health_status"][1] \notin HEALTH_STATUS_CHOICES
                  THEN {"health_status"} ELSE {})
    IN  [f \in bad |->
            IF f = "sample" /\ ~has("sample") THEN "This field is required."
            ELSE IF f = "sample" THEN "Invalid pk - object does not exist."
            ELSE IF f = "health_status" THEN "is not a valid choice."
            ELSE "Ensure this value is within its range."]

\* GrowthMetrics.clean of a row that has its measured_at: the day of
\* measured_at may not come before the sampling_date of the sample; a
\* missing sample, a missing or empty sampling_date and one that does not
\* parse are passed over.
GrowthMetrics_clean(row) ==
    IF row.sample \notin DOMAIN samples THEN NoError
    ELSE LET sample_detail == samples[row.sample].sample_detail IN
         IF "sampling_date" \notin DOMAIN sample_detail THEN NoError
         ELSE IF sample_detail["sampling_date"] = "" THEN NoError
         ELSE IF ~strptime_ok(sample_detail["sampling_date"]) THEN NoError
         ELSE IF row.measured_at < strptime(sample_detail["sampling_date"])
         THEN "Growth metric date cannot be before sample collection date"
         ELSE NoError

\* GrowthMetricsDetailView PUT (partial = FALSE) and PATCH (partial = TRUE):
\* the serializer's validation, then GrowthMetrics.save with full_clean on
\* the row with the validated fields set; measured_at stays.
GrowthMetricsDetailView_update(growth_id, data, partial) ==
    /\ IF growth_id \notin DOMAIN growth
       THEN /\ resp' = Response("growth_update", growth_id, 404, NotFound)
            /\ UNCHANGED growth
       ELSE LET errors == GrowthMetricsSerializer_update_errors(data, partial)
                row == [f \in DOMAIN growth[growth_id] |->
                            IF f \in DOMAIN data THEN data[f] ELSE growth[growth_id][f]]
            IN  IF DOMAIN errors # {}
                THEN /\ resp' = Response("growth_update", growth_id, 400,
                                    [errors |-> DOMAIN errors])
                     /\ UNCHANGED growth
                ELSE IF GrowthMetrics_clean(row) # NoError
                THEN /\ resp' = Response("growth_update", growth_id, 500,
                                    [error |-> GrowthMetrics_clean(row)])
                     /\ UNCHANGED growth
                ELSE /\ growth' = [growth EXCEPT ![growth_id] = row]
                     /\ resp' = Response("growth_update", growth_id, 200, row)
    /\ UNCHANGED <<locations, conditions, researchers, samples, links, audit, seq, now, pending>>

\* GrowthMetricsDetailView DELETE
GrowthMetricsDetailView_delete(growth_id) ==
    /\ IF growth_id \notin DOMAIN growth
       THEN /\ resp' = Response("growth_delete", growth_id, 404, NotFound)
            /\ UNCHANGED growth
       ELSE /\ growth' = Without(growth, {growth_id})
            /\ resp' = Response("growth_delete", growth_id, 204, Empty)
    /\ UNCHANGED <<locations, conditions, researchers, samples, links, audit, seq, now, pending>>

\* float(x) if x else None
FloatOrNone(v) == IF v = Null \/ v = Some(0) THEN Null ELSE v

\* GrowthMetricsCreateForSampleView.post with transaction.atomic() left out:
\* each write is committed as it is made.
GrowthMetricsCreateForSampleView_post_autocommit(sample_id, data, fail) ==
    /\ IF sample_id \notin DOMAIN samples
       THEN /\ resp' = Response("growth_add", sample_id, 404, NotFound)
            /\ UNCHANGED <<samples, growth, links, audit, seq>>
       ELSE LET errors == GrowthMetricsSerializer_errors(sample_id, data) IN
            IF DOMAIN errors # {}
            THEN /\ resp' = Response("growth_add", sample_id, 400, [errors |-> DOMAIN errors])
                 /\ UNCHANGED <<samples, growth, links, audit, seq>>
            ELSE /\ seq.growth < MaxGrowth
                 /\ Len(audit) < MaxAudit
                 /\ LET s1 == GrowthMetrics_save(Tables, sample_id, data)
                        s2 == SampleAuditLog_create(s1.db, sample_id, "GROWTH_METRICS_ADDED",
                                [growth_id |-> s1.db.seq.growth,
                                 height |-> FloatOrNone(data.height),
                                 leaf_count |-> data.leaf_count,
                                 stem_diameter |-> FloatOrNone(data.stem_diameter),
                                 health_status |-> data.health_status])
                        tx == transaction_autocommit(Tables, <<s1, s2>>, fail)
                    IN  /\ Commit(tx.db)
                        /\ resp' = IF tx.ok
                            THEN Response("growth_add", sample_id, 201, data)
                            ELSE Response("growth_add", sample_id, 400, [error |-> tx.error])
    /\ UNCHANGED <<locations, conditions, researchers, now, pending>>

\* GrowthMetricsCreateForSampleView.post
GrowthMetricsCreateForSampleView_post(sample_id, data, fail) ==
    /\ IF sample_id \notin DOMAIN samples
       THEN /\ resp' = Response("growth_add", sample_id, 404, NotFound)
            /\ UNCHANGED <<samples, growth, links, audit, seq>>
       ELSE LET errors == GrowthMetricsSerializer_errors(sample_id, data) IN
            IF DOMAIN errors # {}
            THEN /\ resp' = Response("growth_add", sample_id, 400, [errors |-> DOMAIN errors])
                 /\ UNCHANGED <<samples, growth, links, audit, seq>>
            ELSE /\ seq.growth < MaxGrowth
                 /\ Len(audit) < MaxAudit
                 /\ LET s1 == GrowthMetrics_save(Tables, sample_id, data)
                        s2 == SampleAuditLog_create(s1.db, sample_id, "GROWTH_METRICS_ADDED",
                                [growth_id |-> s1.db.seq.growth,
                                 height |-> FloatOrNone(data.height),
                                 leaf_count |-> data.leaf_count,
                                 stem_diameter |-> FloatOrNone(data.stem_diameter),
                                 health_status |-> data.health_status])
                        tx == transaction_atomic(Tables, <<s1, s2>>, fail)
                    IN  /\ Commit(tx.db)
                        /\ resp' = IF tx.ok
                            THEN Response("growth_add", sample_id, 201, data)
                            ELSE Response("growth_add", sample_id, 400, [error |-> tx.error])
    /\ UNCHANGED <<locations, conditions, researchers, now, pending>>

\* The requests that can be under way at once.
RequestIds == 1..MaxRequests

\* PlantSampleUpdateView.put up to its transaction, as request r: the load
\* of the sample, the check of is_deleted and the serializer's validation.
\* A request that passes them holds the copy it loaded.
PlantSampleUpdateView_put_load(r, sample_id, data) ==
    /\ r \notin DOMAIN pending
    /\ IF sample_id \notin DOMAIN samples
       THEN /\ resp' = Response("sample_put", sample_id, 404, NotFound)
            /\ UNCHANGED pending
       ELSE IF samples[sample_id].is_deleted
       THEN /\ resp' = Response("sample_put", sample_id, 400,
                        [error |-> "Sample is deleted and cannot be updated"])
            /\ UNCHANGED pending
       ELSE LET errors == PlantSampleUpdateSerializer_errors(data, FALSE) IN
            IF DOMAIN errors # {}
            THEN /\ resp' = Response("sample_put", sample_id, 400, [errors |-> DOMAIN errors])
                 /\ UNCHANGED pending
            ELSE /\ pending' = DictSet(pending, r,
                                [op |-> "sample_put", sample_id |-> sample_id,
                                 data |-> data, sample |-> samples[sample_id]])
                 /\ UNCHANGED resp
    /\ UNCHANGED <<locations, conditions, researchers, samples, links, growth, audit, seq, now>>

\* PlantSampleUpdateView.put from its transaction on, as request r:
\* serializer.save() writes the row from the copy the request loaded, then
\* the UPDATED entry.
PlantSampleUpdateView_put_save(r) ==
    /\ r \in DOMAIN pending
    /\ pending[r].op = "sample_put"
    /\ Len(audit) < MaxAudit
    /\ LET sample_id == pending[r].sample_id
           tx == transaction_atomic(Tables,
                    UpdateSteps(sample_id, pending[r].sample, pending[r].data), 0)
       IN  /\ Commit(tx.db)
           /\ resp' = IF tx.ok
                THEN Response("sample_put", sample_id, 200,
                        PlantSampleDetailSerializer_data(tx.db, sample_id,
                            tx.db.samples[sample_id]))
                ELSE Response("sample_put", sample_id, 400, [error |-> tx.error])
    /\ pending' = Without(pending, {r})
    /\ UNCHANGED <<locations, conditions, researchers, now>>

\* PlantSampleDetailView.delete up to its transaction, as request r: the
\* load of the sample and the check of is_deleted.
PlantSampleDetailView_delete_load(r, sample_id) ==
    /\ r \notin DOMAIN pending
    /\ IF sample_id \notin DOMAIN samples
       THEN /\ resp' = Response("sample_delete", sample_id, 404, NotFound)
            /\ UNCHANGED pending
       ELSE IF samples[sample_id].is_deleted
       THEN /\ resp' = Response("sample_delete", sample_id, 200,
                        [message |-> "Sample already deleted", sample_id |-> sample_id,
                         status |-> "deleted"])
            /\ UNCHANGED pending
       ELSE /\ pending' = DictSet(pending, r,
                            [op |-> "sample_delete", sample_id |-> sample_id,
                             data |-> Empty, sample |-> samples[sample_id]])
            /\ UNCHANGED resp
    /\ UNCHANGED <<locations, conditions, researchers, samples, links, growth, audit, seq, now>>

\* PlantSampleDetailView.delete from its transaction on, as request r: the
\* DELETED entry, then sample.delete() on the copy the request loaded.
PlantSampleDetailView_delete_save(r) ==
    /\ r \in DOMAIN pending
    /\ pending[r].op = "sample_delete"
    /\ Len(audit) < MaxAudit
    /\ LET sample_id == pending[r].sample_id
           sample == pending[r].sample
           s1 == SampleAuditLog_create(Tables, sample_id, "DELETED",
                    [species |-> SpeciesOrUnknown(sample.sample_detail)])
           s2 == PlantSample_delete(s1.db, sample_id, sample)
           tx == transaction_atomic(Tables, <<s1, s2>>, 0)
       IN  /\ Commit(tx.db)
           /\ resp' = IF tx.ok
                THEN Response("sample_delete", sample_id, 200,
                        [message |-> "soft deleted successfully",
                         sample_id |-> sample_id, status |-> "deleted"])
                ELSE Response("sample_delete", sample_id, 400, [error |-> tx.error])
    /\ pending' = Without(pending, {r})
    /\ UNCHANGED <<locations, conditions, researchers, now>>

\* ------------------------------------------------------------------- clock
\* A day passes.
Tick ==
    /\ now < MaxDay
    /\ now' = now + 1
    /\ UNCHANGED <<locations, conditions, researchers, samples, links, growth, audit, seq, resp, pending>>

\* ----------------------------------------------------------- specification
Init ==
    /\ locations = Empty
    /\ conditions = Empty
    /\ researchers = Empty
    /\ samples = Empty
    /\ links = Empty
    /\ growth = Empty
    /\ audit = <<>>
    /\ seq = [location |-> 0, condition |-> 0, researcher |-> 0, sample |-> 0,
              link |-> 0, growth |-> 0]
    /\ now = 1
    /\ resp = Response("none", 0, 0, Empty)
    /\ pending = Empty

\* The sample lifecycle over the locations and conditions it references, as
\* the days pass; every write goes through.
Next ==
    \/ \E ld \in LocationInputs : SamplingLocationListCreateView_post(ld)
    \/ \E l \in LocationIds : SamplingLocationDetailView_delete(l)
    \/ \E cd \in ConditionInputs : EnvironmentalConditionsListCreateView_post(cd)
    \/ \E c \in ConditionIds : EnvironmentalConditionsDetailView_delete(c)
    \/ \E data \in SampleDataInputs : PlantSampleCreateView_post(data, 0)
    \/ PlantSampleListView_get
    \/ \E i \in SampleIds : PlantSampleDetailView_get(i)
    \/ \E i \in SampleIds : PlantSampleDetailView_delete(i, 0)
    \/ \E i \in SampleIds, data \in SampleDataInputs : PlantSampleUpdateView_put(i, data, 0)
    \/ \E i \in SampleIds, data \in PatchDataInputs : PlantSampleUpdateView_patch(i, data, 0)
    \/ \E i \in SampleIds : PlantSampleHardDeleteView_delete(i, 0)
    \/ Tick

Spec == Init /\ [][Next]_vars

\* The request bodies of SpecStore: BaseDetail at each location, a payload
\* PlantSample.save refuses, another common name.
StoreSampleData ==
    {[sample_detail |-> BaseDetail, location |-> l, condition |-> c] :
        l \in LocationIds, c \in ConditionIds}
    \cup {[sample_detail |-> DictSet(BaseDetail, "sampling_date", isoformat(MaxDay + 1)),
           location |-> 1, condition |-> 1]}

StorePatchData ==
    {[location |-> l] : l \in LocationIds}
    \cup {[sample_detail |-> DictSet(BaseDetail, "common_name", "Oak")]}

\* Every table of the store on one day: the samples with their growth
\* metrics and researcher links, and a storage backend that may fail at any
\* write of a transaction (fail = the number of the write that fails).
NextStore ==
    \/ \E ld \in LocationInputs : SamplingLocationListCreateView_post(ld)
    \/ \E l \in LocationIds : SamplingLocationDetailView_delete(l)
    \/ \E cd \in ConditionInputs : EnvironmentalConditionsListCreateView_post(cd)
    \/ \E c \in ConditionIds : EnvironmentalConditionsDetailView_delete(c)
    \/ \E rd \in ResearcherInputs :
            seq.researcher < MaxStoreResearchers /\ ResearcherInfoListCreateView_post(rd)
    \/ \E r \in ResearcherIds : ResearcherInfoDetailView_delete(r)
    \/ \E data \in StoreSampleData, fail \in 0..2 : PlantSampleCreateView_post(data, fail)
    \/ \E i \in SampleIds : PlantSampleDetailView_get(i)
    \/ \E i \in SampleIds, fail \in 0..2 : PlantSampleDetailView_delete(i, fail)
    \/ \E i \in SampleIds, data \in StoreSampleData, fail \in 0..2 :
            PlantSampleUpdateView_put(i, data, fail)
    \/ \E i \in SampleIds, data \in StorePatchData, fail \in 0..2 :
            PlantSampleUpdateView_patch(i, data, fail)
    \/ \E i \in SampleIds, fail \in 0..4 : PlantSampleHardDeleteView_delete(i, fail)
    \/ \E data \in LinkInputs :
            seq.link < MaxStoreLinks /\ SampleResearchersCreateView_post(data)
    \/ \E i \in SampleIds, data \in GrowthInputs : GrowthMetricsListCreateView_post(i, data)
    \/ \E i \in SampleIds, data \in GrowthInputs, fail \in 0..2 :
            GrowthMetricsCreateForSampleView_post(i, data, fail)

SpecStore == Init /\ [][NextStore]_vars

\* The request bodies of SpecLinks.
LinksSampleData == [sample_detail |-> BaseDetail, location |-> 1, condition |-> 1]

\* The researcher links and growth metrics of samples through their own
\* endpoints, next to the lifecycle of the samples they belong to, as the
\* days pass; every write goes through.
NextLinks ==
    \/ SamplingLocationListCreateView_post(ValidLocationData)
    \/ EnvironmentalConditionsListCreateView_post(ValidConditionData)
    \/ \E rd \in ResearcherInputs :
            seq.researcher < MaxStoreResearchers /\ ResearcherInfoListCreateView_post(rd)
    \/ \E r \in ResearcherIds : ResearcherInfoDetailView_delete(r)
    \/ PlantSampleCreateView_post(LinksSampleData, 0)
    \/ \E i \in SampleIds : PlantSampleDetailView_delete(i, 0)
    \/ \E i \in SampleIds : PlantSampleHardDeleteView_delete(i, 0)
    \/ \E data \in LinkInputs : SampleResearchersCreateView_post(data)
    \/ \E l \in LinkIds, data \in LinkUpdateInputs, partial \in BOOLEAN :
            SampleResearchersDetailView_update(l, data, partial)
    \/ \E l \in LinkIds : SampleResearchersDetailView_delete(l)
    \/ \E i \in SampleIds, data \in GrowthInputs : GrowthMetricsListCreateView_post(i, data)
    \/ \E g \in GrowthIds : GrowthMetricsDetailView_delete(g)
    \/ Tick

SpecLinks == Init /\ [][NextLinks]_vars

\* The bodies of POST /researchers/ in SpecResearchers.
ResearcherCreateInputs ==
    ResearcherInputs \cup {[name |-> "Ben Marsh", email |-> "ben@example.org"]}

\* The researchers through their endpoints, with the links that tie them to
\* samples and the growth metrics of those samples.
NextResearchers ==
    \/ SamplingLocationListCreateView_post(ValidLocationData)
    \/ EnvironmentalConditionsListCreateView_post(ValidConditionData)
    \/ PlantSampleCreateView_post(LinksSampleData, 0)
    \/ \E rd \in ResearcherCreateInputs : ResearcherInfoListCreateView_post(rd)
    \/ \E r \in ResearcherIds, data \in ResearcherUpdateInputs, partial \in BOOLEAN :
            ResearcherInfoDetailView_update(r, data, partial)
    \/ \E r \in ResearcherIds : ResearcherInfoDetailView_delete(r)
    \/ \E data \in LinkInputs : SampleResearchersCreateView_post(data)
    \/ \E i \in SampleIds, data \in GrowthInputs : GrowthMetricsListCreateView_post(i, data)

SpecResearchers == Init /\ [][NextResearchers]_vars

\* Location payloads around every rule of SamplingLocation.clean: each
\* bound of each range and the value one unit outside it, each required key
\* left out, site_type left out, unknown or another known value.
LocationBoundaryInputs ==
    {[ValidLocationData EXCEPT !.coordinates.latitude = v] : v \in {-91, -90, 90, 91}}
    \cup {[ValidLocationData EXCEPT !.coordinates.longitude = v] : v \in {-181, -180, 180, 181}}
    \cup {DictDrop(ValidLocationData, k) : k \in {"coordinates", "region", "country", "site_type"}}
    \cup {[ValidLocationData EXCEPT !.coordinates = [latitude |-> 52]],
          [ValidLocationData EXCEPT !.coordinates = [longitude |-> 13]],
          [ValidLocationData EXCEPT !.site_type = "tundra"],
          [ValidLocationData EXCEPT !.site_type = "wetland"],
          [DictDrop(ValidLocationData, "site_type") EXCEPT !.coordinates.latitude = 91]}

\* Condition payloads around every rule of EnvironmentalConditions.clean.
ConditionBoundaryInputs ==
    {[ValidConditionData EXCEPT !.soil_composition.pH = v] : v \in {-1, 0, 14, 15}}
    \cup {[ValidConditionData EXCEPT !.temperature = v] : v \in {-51, -50, 60, 61}}
    \cup {[ValidConditionData EXCEPT !.humidity = v] : v \in {-1, 0, 100, 101}}
    \cup {[ValidConditionData EXCEPT !.altitude = v] : v \in {-501, -500, 9000, 9001}}
    \cup {DictDrop(ValidConditionData, k) :
            k \in {"soil_composition", "temperature", "humidity", "altitude"}}
    \cup {[ValidConditionData EXCEPT !.soil_composition = DictDrop(@, k)] :
            k \in {"pH", "nutrients", "type"}}
    \cup {[ValidConditionData EXCEPT !.soil_composition.type = "gravel"],
          [ValidConditionData EXCEPT !.soil_composition.type = "clay"]}

\* The two validators through the endpoints that run them.
NextValidate ==
    \/ \E data \in LocationBoundaryInputs : SamplingLocationListCreateView_post(data)
    \/ \E data \in ConditionBoundaryInputs : EnvironmentalConditionsListCreateView_post(data)

SpecValidate == Init /\ [][NextValidate]_vars

\* The bodies of sample creates and updates in SpecGrowth: a valid sample
\* with its sampling_date on one of the days of the clock.
GrowthSampleData ==
    {[sample_detail |-> DictSet(BaseDetail, "sampling_date", isoformat(day)),
      location |-> 1, condition |-> 1] : day \in 1..MaxDay}

\* Growth metrics through their endpoints next to creates and updates of
\* the samples they belong to, as the days pass.
NextGrowth ==
    \/ SamplingLocationListCreateView_post(ValidLocationData)
    \/ EnvironmentalConditionsListCreateView_post(ValidConditionData)
    \/ \E data \in GrowthSampleData : PlantSampleCreateView_post(data, 0)
    \/ \E i \in SampleIds, data \in GrowthSampleData : PlantSampleUpdateView_put(i, data, 0)
    \/ \E i \in SampleIds, data \in GrowthInputs : GrowthMetricsListCreateView_post(i, data)
    \/ \E i \in SampleIds, data \in GrowthInputs :
            GrowthMetricsCreateForSampleView_post(i, data, 0)
    \/ \E g \in GrowthIds, data \in GrowthUpdateInputs, partial \in BOOLEAN :
            GrowthMetricsDetailView_update(g, data, partial)
    \/ Tick

SpecGrowth == Init /\ [][NextGrowth]_vars

\* The bodies of PUT /samples/<id>/update/ in SpecRace.
RaceSampleData ==
    {LinksSampleData, [LinksSampleData EXCEPT !.sample_detail.common_name = "Oak"]}

\* Updates and soft deletes of samples by requests that run at the same
\* time: each loads its sample, then runs its transaction, and the steps of
\* different requests interleave.
NextRace ==
    \/ SamplingLocationListCreateView_post(ValidLocationData)
    \/ EnvironmentalConditionsListCreateView_post(ValidConditionData)
    \/ PlantSampleCreateView_post(LinksSampleData, 0)
    \/ \E r \in RequestIds, i \in SampleIds, data \in RaceSampleData :
            PlantSampleUpdateView_put_load(r, i, data)
    \/ \E r \in RequestIds : PlantSampleUpdateView_put_save(r)
    \/ \E r \in RequestIds, i \in SampleIds : PlantSampleDetailView_delete_load(r, i)
    \/ \E r \in RequestIds : PlantSampleDetailView_delete_save(r)
    \/ Tick

SpecRace == Init /\ [][NextRace]_vars

\* ================================================================== claims
\* The audit entries of one sample id with one action, in log order.
EntriesOf(log, sample_id, action) ==
    SelectSeq(log, LAMBDA e : e.sample_id = sample_id /\ e.action = action)

\* The step handles a request `op` on the row `id` (a day passing leaves the
\* last response in place and is no request).
Handled(op, id) == now' = now /\ resp'.op = op /\ resp'.id = id

\* C1: softDelete is idempotent.  A soft delete of a sample that is already
\* soft-deleted answers "Sample already deleted", leaves the sample (still
\* status deleted), its children and the audit log as they were; and after
\* every step the log holds exactly one DELETED entry for each soft-deleted
\* sample and none for an active one.
C1_SoftDeleteIdempotent ==
    [][\A i \in SampleIds :
        /\ (Handled("sample_delete", i) /\ i \in DOMAIN samples /\ samples[i].is_deleted)
            => /\ resp'.status = 200
               /\ resp'.body = [message |-> "Sample already deleted", sample_id |-> i,
                                status |-> "deleted"]
               /\ UNCHANGED <<samples, growth, links, audit>>
               /\ get_status(samples'[i]) = "deleted"
        /\ i \in DOMAIN samples'
            => Len(EntriesOf(audit', i, "DELETED")) = IF samples'[i].is_deleted THEN 1 ELSE 0
      ]_vars

\* C1 witness: the second soft delete of a sample has just been answered.
C1_Witness ==
    /\ resp.op = "sample_delete"
    /\ resp.status = 200
    /\ resp.body = [message |-> "Sample already deleted", sample_id |-> resp.id,
                    status |-> "deleted"]
    /\ samples[resp.id].is_deleted
    /\ Len(EntriesOf(audit, resp.id, "DELETED")) = 1

\* C2: after a successful hardDelete of sample i no growth metric and no
\* researcher link references i, get-by-id of i answers 404, and the audit
\* log of i (newest first) is the HARD_DELETED entry followed by the entries
\* it held before.
C2_HardDeleteRemovesAll ==
    [][\A i \in SampleIds :
        (Handled("sample_hard_delete", i) /\ resp'.status = 200)
        => /\ \A g \in DOMAIN growth' : growth'[g].sample # i
           /\ \A l \in DOMAIN links' : links'[l].sample # i
           /\ PlantSampleDetailView_get_response(Tables, i)'.status = 404
           /\ LET after == SampleAuditLogBySampleView_get_queryset(audit', i)
                  before == SampleAuditLogBySampleView_get_queryset(audit, i)
              IN  /\ after # <<>>
                  /\ Head(after).action = "HARD_DELETED"
                  /\ Tail(after) = before
                  /\ before # <<>>
      ]_vars

\* C2 witness: a sample that had a growth metric and a researcher link was
\* hard-deleted (the link table's counter shows a link was made, and none is
\* left although its researcher is).
C2_Witness ==
    /\ resp.op = "sample_hard_delete"
    /\ resp.status = 200
    /\ EntriesOf(audit, resp.id, "GROWTH_METRICS_ADDED") # <<>>
    /\ seq.link > 0 /\ links = Empty /\ researchers # Empty
    /\ growth = Empty

\* C3: every multi-step sample write is all-or-nothing.  A request answered
\* with an error leaves samples, growth metrics, links and audit log as they
\* were; an audit entry is appended only together with the data change it
\* describes; and the sample table changes, and a sample request changes
\* growth metrics or links, only together with the audit entry.
C3_AllOrNothing ==
    [][/\ (now' = now /\ resp'.status \notin {200, 201, 204})
            => UNCHANGED <<samples, growth, links, audit>>
       /\ audit' # audit
            => /\ Len(audit') = Len(audit) + 1
               /\ SubSeq(audit', 1, Len(audit)) = audit
               /\ LET e == audit'[Len(audit')]
                      i == e.sample_id
                  IN  CASE e.action = "CREATED" ->
                            /\ i \notin DOMAIN samples
                            /\ i \in DOMAIN samples'
                        [] e.action = "UPDATED" ->
                            /\ i \in DOMAIN samples /\ i \in DOMAIN samples'
                            /\ samples[i].sample_detail = e.details.old_detail
                            /\ samples'[i].sample_detail = e.details.new_detail
                        [] e.action = "DELETED" ->
                            /\ i \in DOMAIN samples /\ i \in DOMAIN samples'
                            /\ ~samples[i].is_deleted
                            /\ samples'[i].is_deleted
                        [] e.action = "HARD_DELETED" ->
                            /\ i \in DOMAIN samples
                            /\ i \notin DOMAIN samples'
                            /\ \A g \in DOMAIN growth' : growth'[g].sample # i
                            /\ \A l \in DOMAIN links' : links'[l].sample # i
                        [] e.action = "GROWTH_METRICS_ADDED" ->
                            /\ e.details.growth_id \notin DOMAIN growth
                            /\ e.details.growth_id \in DOMAIN growth'
                            /\ growth'[e.details.growth_id].sample = i
                        [] OTHER -> FALSE
       /\ samples' # samples => audit' # audit
       /\ (now' = now /\ resp'.op \in {"sample_hard_delete", "growth_add"}
                /\ (growth' # growth \/ links' # links))
            => audit' # audit
      ]_vars

\* C3 witness: a hard delete of a sample with a growth metric failed on the
\* way and was rolled back: the metric and the sample are still there and no
\* HARD_DELETED entry is.
C3_Witness ==
    /\ resp.op = "sample_hard_delete"
    /\ resp.status = 400
    /\ resp.body = [error |-> "database error"]
    /\ resp.id \in DOMAIN samples
    /\ \E g \in DOMAIN growth : growth[g].sample = resp.id
    /\ EntriesOf(audit, resp.id, "HARD_DELETED") = <<>>

\* C4: an update (PUT or PATCH) of a soft-deleted sample is refused with the
\* "is deleted and cannot be updated" error and changes nothing: the sample
\* row (detail, location, condition, is_deleted, deleted_at) and the audit
\* log are as before.
C4_UpdateOfDeletedRejected ==
    [][\A i \in SampleIds :
        ((Handled("sample_put", i) \/ Handled("sample_patch", i))
            /\ i \in DOMAIN samples /\ samples[i].is_deleted)
        => /\ resp'.status = 400
           /\ resp'.body = [error |-> "Sample is deleted and cannot be updated"]
           /\ samples' = samples
           /\ audit' = audit
      ]_vars

\* C4 witness: a PUT to a soft-deleted sample has just been refused.
C4_Witness ==
    /\ resp.op = "sample_put"
    /\ resp.status = 400
    /\ resp.body = [error |-> "Sample is deleted and cannot be updated"]
    /\ resp.id \in DOMAIN samples
    /\ samples[resp.id].is_deleted

\* The payload `stored` with the fields of `given` laid over it, field by field.
MergedDetail(stored, given) ==
    [k \in (DOMAIN stored) \cup (DOMAIN given) |->
        IF k \in DOMAIN given THEN given[k] ELSE stored[k]]

\* C5: a PATCH of an active sample whose sample_detail gives only some of
\* the detail fields, the merged payload being valid, succeeds, stores the
\* payload merged field by field and appends one UPDATED entry with the old
\* and the merged payload.
C5_PartialUpdateMerges ==
    [][\A i \in SampleIds, sd \in DetailInputs :
        (/\ i \in DOMAIN samples
         /\ ~samples[i].is_deleted
         /\ DOMAIN sd # {}
         /\ DOMAIN sd # DOMAIN samples[i].sample_detail
         /\ (DOMAIN sd) \subseteq DOMAIN samples[i].sample_detail
         /\ PlantSample_clean(MergedDetail(samples[i].sample_detail, sd), now) = NoError
         /\ Len(audit) < MaxAudit
         /\ PlantSampleUpdateView_patch(i, [sample_detail |-> sd], 0))
        => /\ resp'.status = 200
           /\ samples'[i].sample_detail = MergedDetail(samples[i].sample_detail, sd)
           /\ audit' = Append(audit,
                [sample_id |-> i, action |-> "UPDATED",
                 details |-> [old_detail |-> samples[i].sample_detail,
                              new_detail |-> MergedDetail(samples[i].sample_detail, sd)]])
      ]_vars

\* C6: a create whose sample_detail has no sampling_date (the key is absent
\* or its value empty), the rest of the request being valid, succeeds and
\* the stored sample's sampling_date is the current date.
C6_CreateFillsSamplingDate ==
    [][\A data \in FullSampleData :
        (/\ "sampling_date" \notin DOMAIN data.sample_detail
                \/ data.sample_detail["sampling_date"] = ""
         /\ PlantSample_clean(DictSet(data.sample_detail, "sampling_date", isoformat(now)),
                              now) = NoError
         /\ data.location \in DOMAIN locations
         /\ data.condition \in DOMAIN conditions
         /\ seq.sample < MaxSamples
         /\ Len(audit) < MaxAudit
         /\ PlantSampleCreateView_post(data, 0))
        => /\ resp'.status = 201
           /\ resp'.id \in DOMAIN samples'
           /\ resp'.id \notin DOMAIN samples
           /\ samples'[resp'.id].sample_detail["sampling_date"] = isoformat(now)
      ]_vars

\* C7: every stored sample, active or soft-deleted, has a sampling_date that
\* is present, a date, and not later than the current date.
C7_SamplingDateNotInFuture ==
    \A i \in DOMAIN samples :
        /\ "sampling_date" \in DOMAIN samples[i].sample_detail
        /\ strptime_ok(samples[i].sample_detail["sampling_date"])
        /\ strptime(samples[i].sample_detail["sampling_date"]) <= now

\* C7 witness: days have passed, a sample dated before today and a
\* soft-deleted sample are stored, and a request that gave a sampling_date
\* in the future has just been refused.
C7_Witness ==
    /\ now > 1
    /\ \E i \in DOMAIN samples : strptime(samples[i].sample_detail["sampling_date"]) < now
    /\ \E i \in DOMAIN samples : samples[i].is_deleted
    /\ resp.op \in {"sample_create", "sample_put", "sample_patch"}
    /\ resp.status = 400
    /\ resp.body = [error |-> "Sampling date cannot be in the future"]

\* C8: deleting a location or a condition that a stored sample (active or
\* soft-deleted) references fails with the RestrictedError and changes
\* nothing: the row, every sample, every growth metric and every link stay.
C8_ReferencedRowNotDeleted ==
    [][/\ \A l \in LocationIds :
            (Handled("location_delete", l)
                /\ \E i \in DOMAIN samples : samples[i].location = l)
            => /\ resp'.status = 500
               /\ resp'.body = [error |-> "RestrictedError"]
               /\ UNCHANGED <<locations, conditions, samples, growth, links, researchers, audit>>
       /\ \A c \in ConditionIds :
            (Handled("condition_delete", c)
                /\ \E i \in DOMAIN samples : samples[i].condition = c)
            => /\ resp'.status = 500
               /\ resp'.body = [error |-> "RestrictedError"]
               /\ UNCHANGED <<locations, conditions, samples, growth, links, researchers, audit>>
      ]_vars

\* C8 witness: the delete of a location was refused while a soft-deleted
\* sample with a growth metric and a researcher link references it.
C8_Witness ==
    /\ resp.op = "location_delete"
    /\ resp.status = 500
    /\ \E i \in DOMAIN samples :
        /\ samples[i].location = resp.id
        /\ samples[i].is_deleted
        /\ \E g \in DOMAIN growth : growth[g].sample = i
        /\ \E l \in DOMAIN links : links[l].sample = i

\* C9: deleting a location or a condition that no stored sample references
\* (none ever did, or all that did were hard-deleted) succeeds and removes
\* the row; while samples reference it, even if all of them are
\* soft-deleted, the delete does not succeed and the row stays.
C9_DeleteAfterHardDelete ==
    [][/\ \A l \in LocationIds :
            (Handled("location_delete", l) /\ l \in DOMAIN locations)
            => LET refs == {i \in DOMAIN samples : samples[i].location = l} IN
               /\ refs = {} => (resp'.status = 204 /\ l \notin DOMAIN locations')
               /\ (refs # {} /\ \A i \in refs : samples[i].is_deleted)
                    => (resp'.status # 204 /\ l \in DOMAIN locations')
       /\ \A c \in ConditionIds :
            (Handled("condition_delete", c) /\ c \in DOMAIN conditions)
            => LET refs == {i \in DOMAIN samples : samples[i].condition = c} IN
               /\ refs = {} => (resp'.status = 204 /\ c \notin DOMAIN conditions')
               /\ (refs # {} /\ \A i \in refs : samples[i].is_deleted)
                    => (resp'.status # 204 /\ c \in DOMAIN conditions')
      ]_vars

\* C9 witness: a location was deleted after the sample created at it was
\* soft-deleted and then hard-deleted.
C9_Witness ==
    /\ resp.op = "location_delete"
    /\ resp.status = 204
    /\ \E i \in SampleIds :
        /\ \E k \in DOMAIN audit :
            /\ audit[k].sample_id = i
            /\ audit[k].action = "CREATED"
            /\ audit[k].details.location_id = resp.id
        /\ EntriesOf(audit, i, "DELETED") # <<>>
        /\ EntriesOf(audit, i, "HARD_DELETED") # <<>>

\* C10: every stored sample, active or soft-deleted, references a location
\* row and a condition row that exist.
C10_ReferencesExist ==
    \A i \in DOMAIN samples :
        /\ samples[i].location \in DOMAIN locations
        /\ samples[i].condition \in DOMAIN conditions

\* C10 witness: a sample was moved to another location by an update, the
\* location it was created at was then deleted, and the delete of the
\* location it references now has just been refused.
C10_Witness ==
    /\ resp.op = "location_delete"
    /\ resp.status = 500
    /\ \E i \in DOMAIN samples :
        /\ samples[i].location = resp.id
        /\ \E k \in DOMAIN audit :
            /\ audit[k].sample_id = i
            /\ audit[k].action = "CREATED"
            /\ audit[k].details.location_id # samples[i].location
            /\ audit[k].details.location_id \notin DOMAIN locations

\* The pair a link row would hold after an update with the fields of data.
PairAfter(row, data) ==
    <<IF "sample" \in DOMAIN data THEN data["sample"] ELSE row.sample,
      IF "researcher" \in DOMAIN data THEN data["researcher"] ELSE row.researcher>>

\* C11: a (sample, researcher) pair is held by at most one link row after
\* every step; a create whose pair a row already holds is refused (with the
\* unique-set error when its fields are valid) and adds no row; an update
\* that would give a row the pair of another row is refused and changes no
\* row.
C11_PairUnique ==
    [][/\ \A l1, l2 \in DOMAIN links' :
            (links'[l1].sample = links'[l2].sample
                /\ links'[l1].researcher = links'[l2].researcher) => l1 = l2
       /\ \A data \in LinkInputs :
            (/\ \E l \in DOMAIN links :
                    links[l].sample = data.sample /\ links[l].researcher = data.researcher
             /\ SampleResearchersCreateView_post(data))
            => /\ resp'.status = 400
               /\ links' = links
               /\ (data.role = Null \/ data.role[1] \in ROLE_CHOICES)
                    => resp'.body = [errors |-> {"non_field_errors"}]
       /\ \A id \in DOMAIN links, data \in LinkUpdateInputs, partial \in BOOLEAN :
            (/\ \E l \in (DOMAIN links) \ {id} :
                    <<links[l].sample, links[l].researcher>> = PairAfter(links[id], data)
             /\ SampleResearchersDetailView_update(id, data, partial))
            => /\ resp'.status = 400
               /\ links' = links
      ]_vars

\* C11 witness: with two links stored, an update that would have moved one
\* of them onto the other's pair has just been refused with the unique-set
\* error.
C11_Witness ==
    /\ resp.op = "link_update"
    /\ resp.status = 400
    /\ resp.body = [errors |-> {"non_field_errors"}]
    /\ Cardinality(DOMAIN links) = 2

\* C12: the audit log is append-only.  Across every step each entry of the
\* log keeps its place, sample_id, action and details: the log before the
\* step is a prefix of the log after it, also when the step hard-deletes
\* the sample the entries describe.
C12_AuditAppendOnly ==
    [][/\ Len(audit) <= Len(audit')
       /\ \A k \in DOMAIN audit :
            /\ audit'[k].sample_id = audit[k].sample_id
            /\ audit'[k].action = audit[k].action
            /\ audit'[k].details = audit[k].details
      ]_vars

\* C12 witness: a sample was hard-deleted and the log still holds the
\* CREATED and DELETED entries written for it before.
C12_Witness ==
    /\ resp.op = "sample_hard_delete"
    /\ resp.status = 200
    /\ resp.id \notin DOMAIN samples
    /\ EntriesOf(audit, resp.id, "CREATED") # <<>>
    /\ EntriesOf(audit, resp.id, "DELETED") # <<>>
    /\ audit[Len(audit)].action = "HARD_DELETED"

\* C13: a successful create of a sample inserts exactly one sample row, the
\* row is ACTIVE (is_deleted false, deleted_at null) and no growth metric and
\* no researcher link references it, every other row stays as it was, and
\* exactly one audit entry is appended: action CREATED, the new sample's id,
\* and details holding the sample's species and location id.
C13_CreateInsertsActiveSample ==
    [][\A id \in SampleIds :
        (Handled("sample_create", id) /\ resp'.status = 201)
        => /\ id \notin DOMAIN samples
           /\ DOMAIN samples' = (DOMAIN samples) \cup {id}
           /\ \A j \in DOMAIN samples : samples'[j] = samples[j]
           /\ samples'[id].is_deleted = FALSE
           /\ samples'[id].deleted_at = Null
           /\ get_status(samples'[id]) = "active"
           /\ \A g \in DOMAIN growth' : growth'[g].sample # id
           /\ \A l \in DOMAIN links' : links'[l].sample # id
           /\ UNCHANGED <<growth, links>>
           /\ resp'.body.status = "active"
           /\ resp'.body.researchers = {}
           /\ resp'.body.growth_measurements = {}
           /\ audit' = Append(audit,
                [sample_id |-> id, action |-> "CREATED",
                 details |-> [species |-> samples'[id].sample_detail["species"],
                              location_id |-> samples'[id].location]])
      ]_vars

\* C13 witness: a second sample has just been created while a growth metric
\* and a researcher link of the first one are stored.
C13_Witness ==
    /\ resp.op = "sample_create"
    /\ resp.status = 201
    /\ resp.id = 2
    /\ \E g \in DOMAIN growth : growth[g].sample = 1
    /\ \E l \in DOMAIN links : links[l].sample = 1
    /\ audit[Len(audit)] = [sample_id |-> 2, action |-> "CREATED",
                            details |-> [species |-> "Quercus robur",
                                         location_id |-> samples[2].location]]

\* The request body of a create is invalid on the day `today`: species
\* missing or blank, common_name missing, a sampling_date that is given and
\* is malformed or in the future, or a location or condition that is not
\* stored.
InvalidCreate(data, today) ==
    \/ /\ "sample_detail" \in DOMAIN data
       /\ LET sd == data["sample_detail"] IN
            \/ "species" \notin DOMAIN sd
            \/ StripIsEmpty(sd["species"])
            \/ "common_name" \notin DOMAIN sd
            \/ /\ "sampling_date" \in DOMAIN sd
               /\ sd["sampling_date"] # ""
               /\ \/ ~strptime_ok(sd["sampling_date"])
                  \/ strptime(sd["sampling_date"]) > today
    \/ "location" \in DOMAIN data /\ data["location"] \notin DOMAIN locations
    \/ "condition" \in DOMAIN data /\ data["condition"] \notin DOMAIN conditions

\* C14: a create whose detail payload is invalid (species missing or blank,
\* common_name missing, sampling_date malformed or in the future) or whose
\* location or condition is not stored is refused with status 400; and a
\* create that is refused adds no sample row and no audit entry.
C14_InvalidCreateRefused ==
    [][/\ \A data \in SampleDataInputs :
            (InvalidCreate(data, now) /\ PlantSampleCreateView_post(data, 0))
            => /\ resp'.status = 400
               /\ UNCHANGED <<samples, audit, seq>>
       /\ (now' = now /\ resp'.op = "sample_create" /\ resp'.status # 201)
            => UNCHANGED <<samples, audit, seq>>
      ]_vars

\* C14 witness: with a sample stored, a create with a blank species has
\* just been refused by PlantSample.clean inside the transaction.
C14_Witness ==
    /\ resp.op = "sample_create"
    /\ resp.status = 400
    /\ resp.body = [error |-> "Species name cannot be empty"]
    /\ samples # Empty
    /\ Len(audit) = Cardinality(DOMAIN samples)

\* C15: a successful update (PUT or PATCH) of a sample, which is then
\* ACTIVE, appends exactly one audit entry: action UPDATED, the sample's id,
\* old_detail the detail stored right before the update and new_detail the
\* detail stored right after it.
C15_UpdateLogsOldAndNew ==
    [][\A i \in SampleIds :
        ((Handled("sample_put", i) \/ Handled("sample_patch", i)) /\ resp'.status = 200)
        => /\ i \in DOMAIN samples
           /\ ~samples[i].is_deleted
           /\ audit' = Append(audit,
                [sample_id |-> i, action |-> "UPDATED",
                 details |-> [old_detail |-> samples[i].sample_detail,
                              new_detail |-> samples'[i].sample_detail]])
      ]_vars

\* C15 witness: an update that changed the stored detail has just succeeded
\* and the log ends with its UPDATED entry.
C15_Witness ==
    /\ resp.op \in {"sample_put", "sample_patch"}
    /\ resp.status = 200
    /\ audit[Len(audit)].action = "UPDATED"
    /\ audit[Len(audit)].sample_id = resp.id
    /\ audit[Len(audit)].details.new_detail = samples[resp.id].sample_detail
    /\ audit[Len(audit)].details.old_detail # audit[Len(audit)].details.new_detail

\* C16: softDelete of an ACTIVE sample, when no write fails, succeeds; a
\* successful one sets is_deleted and sets deleted_at to the current time,
\* appends one DELETED entry holding the species, and leaves as they were
\* the sample's detail, location and condition, every growth metric, every
\* researcher link and every other sample.
C16_SoftDeleteFrame ==
    [][\A i \in SampleIds :
        /\ (i \in DOMAIN samples /\ ~samples[i].is_deleted
                /\ PlantSampleDetailView_delete(i, 0))
            => resp'.status = 200
        /\ (Handled("sample_delete", i) /\ resp'.status = 200
                /\ i \in DOMAIN samples /\ ~samples[i].is_deleted)
            => /\ DOMAIN samples' = DOMAIN samples
               /\ samples'[i].is_deleted = TRUE
               /\ samples'[i].deleted_at = Some(now)
               /\ samples'[i].sample_detail = samples[i].sample_detail
               /\ samples'[i].location = samples[i].location
               /\ samples'[i].condition = samples[i].condition
               /\ samples'[i].created_at = samples[i].created_at
               /\ \A j \in (DOMAIN samples) \ {i} : samples'[j] = samples[j]
               /\ UNCHANGED <<growth, links, locations, conditions, researchers>>
               /\ audit' = Append(audit,
                    [sample_id |-> i, action |-> "DELETED",
                     details |-> [species |-> samples[i].sample_detail["species"]]])
      ]_vars

\* C16 witness: a sample with a growth metric and a researcher link has
\* just been soft-deleted, a day after it was created, next to another
\* sample that is still active.
C16_Witness ==
    /\ resp.op = "sample_delete"
    /\ resp.status = 200
    /\ resp.body.message = "soft deleted successfully"
    /\ samples[resp.id].is_deleted
    /\ \E g \in DOMAIN growth : growth[g].sample = resp.id
    /\ \E l \in DOMAIN links : links[l].sample = resp.id
    /\ \E j \in DOMAIN samples : ~samples[j].is_deleted
    /\ samples[resp.id].deleted_at = Some(now)
    /\ samples[resp.id].created_at < now

\* C17: while a sample is SOFT_DELETED, no step other than a hardDelete of
\* that sample removes its row, a growth metric it has or a researcher link
\* it has.
C17_SoftDeletedKeepsChildren ==
    [][\A i \in DOMAIN samples :
        (samples[i].is_deleted /\ ~Handled("sample_hard_delete", i))
        => /\ i \in DOMAIN samples'
           /\ \A g \in DOMAIN growth : growth[g].sample = i => g \in DOMAIN growth'
           /\ \A l \in DOMAIN links : links[l].sample = i => l \in DOMAIN links'
      ]_vars

\* The growth metrics and the links of sample i in the tables d.
GrowthOf(d, i) == {g \in DOMAIN d.growth : d.growth[g].sample = i}
LinksOf(d, i) == {l \in DOMAIN d.links : d.links[l].sample = i}

\* C18: the writes of a hardDelete of a stored sample i come in a fixed
\* order inside one transaction: first the HARD_DELETED entry (all rows
\* still there), then the growth metrics of i, then the links of i, last
\* the row of i; after no write is the row gone while a growth metric or a
\* link of i is left; a successful hardDelete leaves what the last write
\* left, and one that fails at any of the four writes leaves the tables as
\* they were.
C18_HardDeleteOrder ==
    [][\A i \in DOMAIN samples :
        LET steps == PlantSampleHardDeleteView_steps(Tables, i) IN
        /\ Len(steps) = 4
        /\ steps[1].db.audit = Append(audit,
                [sample_id |-> i, action |-> "HARD_DELETED",
                 details |-> [species |-> samples[i].sample_detail["species"],
                              warning |-> "PERMANENT DELETION - All data removed from database"]])
        /\ steps[1].db.growth = growth /\ steps[1].db.links = links
        /\ steps[1].db.samples = samples
        /\ GrowthOf(steps[2].db, i) = {} /\ steps[2].db.links = links
        /\ steps[2].db.samples = samples
        /\ steps[2].db.growth = Without(growth, GrowthOf(Tables, i))
        /\ LinksOf(steps[3].db, i) = {} /\ steps[3].db.samples = samples
        /\ steps[3].db.links = Without(links, LinksOf(Tables, i))
        /\ steps[3].db.growth = steps[2].db.growth
        /\ steps[4].db.samples = Without(samples, {i})
        /\ steps[4].db.growth = steps[3].db.growth
        /\ steps[4].db.links = steps[3].db.links
        /\ \A k \in 2..4 : steps[k].db.audit = steps[1].db.audit
        /\ \A k \in 1..4 :
            i \notin DOMAIN steps[k].db.samples
                => GrowthOf(steps[k].db, i) = {} /\ LinksOf(steps[k].db, i) = {}
        /\ (Handled("sample_hard_delete", i) /\ resp'.status = 200)
            => /\ samples' = steps[4].db.samples
               /\ growth' = steps[4].db.growth
               /\ links' = steps[4].db.links
               /\ audit' = steps[4].db.audit
        /\ (Handled("sample_hard_delete", i) /\ resp'.status # 200)
            => UNCHANGED <<samples, growth, links, audit>>
      ]_vars

\* C18 witness: the only sample ever created, which had a growth metric and
\* a researcher link, has just been hard-deleted.
C18_Witness ==
    /\ resp.op = "sample_hard_delete"
    /\ resp.status = 200
    /\ seq.sample = 1
    /\ samples = Empty
    /\ seq.growth > 0 /\ growth = Empty
    /\ seq.link > 0 /\ links = Empty
    /\ audit[Len(audit)].action = "HARD_DELETED"

\* C19: hardDelete is open from both lifecycle states.  Applied to a stored
\* sample, ACTIVE or SOFT_DELETED, with every write going through, it
\* answers 200, removes the row and appends a HARD_DELETED entry for it;
\* applied to an id that is not stored (never created, or hard-deleted
\* before) it answers 404 Not found and leaves samples and audit log as they
\* were.
C19_HardDeleteFromAnyState ==
    [][\A i \in SampleIds :
        PlantSampleHardDeleteView_delete(i, 0)
        => IF i \in DOMAIN samples
           THEN /\ resp'.status = 200
                /\ i \notin DOMAIN samples'
                /\ Len(audit') = Len(audit) + 1
                /\ audit'[Len(audit')].action = "HARD_DELETED"
                /\ audit'[Len(audit')].sample_id = i
           ELSE /\ resp'.status = 404
                /\ resp'.body = NotFound
                /\ UNCHANGED <<samples, audit>>
      ]_vars

\* C19 witness: a sample was soft-deleted and then hard-deleted, and a
\* second hardDelete of its id has just been answered Not found.
C19_Witness ==
    /\ resp.op = "sample_hard_delete"
    /\ resp.status = 404
    /\ resp.id \notin DOMAIN samples
    /\ EntriesOf(audit, resp.id, "DELETED") # <<>>
    /\ Len(EntriesOf(audit, resp.id, "HARD_DELETED")) = 1

\* The fields of the detail projection that show a sample's data.
DetailDataFields ==
    {"sample_detail", "location", "location_data", "condition", "condition_data",
     "researchers", "growth_measurements"}

\* C20: get-by-id of a SOFT_DELETED sample answers only the deleted marker
\* (message, sample_id, status = deleted) and none of the sample's detail
\* payload, location, condition, researchers or growth measurements;
\* get-by-id of an ACTIVE sample answers the full detail projection with
\* status = active.
C20_GetHidesDeleted ==
    [][\A i \in DOMAIN samples :
        Handled("sample_get", i)
        => /\ resp'.status = 200
           /\ IF samples[i].is_deleted
              THEN /\ resp'.body = [message |-> "Sample deleted", sample_id |-> i,
                                    status |-> "deleted"]
                   /\ (DOMAIN resp'.body) \cap DetailDataFields = {}
              ELSE /\ DetailDataFields \subseteq DOMAIN resp'.body
                   /\ resp'.body.status = "active"
                   /\ resp'.body.sample_id = i
                   /\ resp'.body.sample_detail = samples[i].sample_detail
                   /\ resp'.body.location = samples[i].location
                   /\ resp'.body.location_data.location_data
                        = locations[samples[i].location].location_data
                   /\ resp'.body.condition = samples[i].condition
                   /\ resp'.body.condition_data.condition_data
                        = conditions[samples[i].condition].condition_data
                   /\ {r.researcher_id : r \in resp'.body.researchers}
                        = {links[l].researcher : l \in LinksOf(Tables, i)}
                   /\ {g.growth_id : g \in resp'.body.growth_measurements}
                        = GrowthOf(Tables, i)
      ]_vars

\* C20 witness: get-by-id of a soft-deleted sample that has a growth metric
\* and a researcher link has just answered the deleted marker.
C20_Witness ==
    /\ resp.op = "sample_get"
    /\ resp.status = 200
    /\ resp.body = [message |-> "Sample deleted", sample_id |-> resp.id, status |-> "deleted"]
    /\ samples[resp.id].is_deleted
    /\ GrowthOf(Tables, resp.id) # {}
    /\ LinksOf(Tables, resp.id) # {}

\* The sample ids of a listing, in the order listed.
ListedIds(body) == [k \in DOMAIN body |-> body[k].sample_id]

\* C21: the sample listing holds exactly the stored samples with
\* is_deleted = false, each once, newest first by creation time; a
\* soft-deleted or hard-deleted sample is not in it.  This holds of the
\* queryset in every state and of the answer of every listing request.
C21_ListActiveNewestFirst ==
    [][\A ids \in {PlantSampleListView_queryset'},
          active \in {{i \in DOMAIN samples' : ~samples'[i].is_deleted}} :
           /\ {ids[k] : k \in DOMAIN ids} = active
           /\ Len(ids) = Cardinality(active)
           /\ \A k, m \in DOMAIN ids :
                k < m => samples'[ids[k]].created_at >= samples'[ids[m]].created_at
           /\ \A k \in DOMAIN ids : ids[k] \in DOMAIN samples' /\ ~samples'[ids[k]].is_deleted
           /\ (now' = now /\ resp'.op = "sample_list")
                => /\ resp'.status = 200
                   /\ ListedIds(resp'.body) = ids
                   /\ \A k \in DOMAIN ids :
                        /\ resp'.body[k].species = samples'[ids[k]].sample_detail["species"]
                        /\ resp'.body[k].created_at = samples'[ids[k]].created_at
      ]_vars

\* C21 witness: a listing has just shown one sample while another sample,
\* created before it, is stored soft-deleted and left out.
C21_Witness ==
    /\ resp.op = "sample_list"
    /\ Len(resp.body) = 1
    /\ \E i \in DOMAIN samples :
        /\ samples[i].is_deleted
        /\ samples[i].created_at < resp.body[1].created_at

\* C22: a successful delete of researcher r removes the row of r and every
\* link of r and nothing else: afterwards no link references r, the links
\* of other researchers, every sample, growth metric and audit entry and
\* every other researcher are as before.
C22_ResearcherDeleteCascade ==
    [][\A r \in ResearcherIds :
        (Handled("researcher_delete", r) /\ resp'.status = 204)
        => /\ r \in DOMAIN researchers
           /\ researchers' = Without(researchers, {r})
           /\ \A l \in DOMAIN links' : links'[l].researcher # r
           /\ links' = Without(links, {l \in DOMAIN links : links[l].researcher = r})
           /\ \A l \in DOMAIN links : links[l].researcher # r
                => l \in DOMAIN links' /\ links'[l] = links[l]
           /\ UNCHANGED <<samples, growth, audit, locations, conditions>>
      ]_vars

\* C22 witness: a researcher with a link has just been deleted; the link of
\* the other researcher, a growth metric and the samples are stored.
C22_Witness ==
    /\ resp.op = "researcher_delete"
    /\ resp.status = 204
    /\ seq.link = 2
    /\ Cardinality(DOMAIN links) = 1
    /\ \A l \in DOMAIN links : links[l].researcher # resp.id
    /\ growth # Empty
    /\ Cardinality(DOMAIN researchers) = 1

\* The request body gives an email that another researcher than pk holds,
\* or a name that is empty or whitespace.
TakenOrBlank(pk, data) ==
    \/ "email" \in DOMAIN data
        /\ \E r \in (DOMAIN researchers) \ {pk} : researchers[r].email = data["email"]
    \/ "name" \in DOMAIN data /\ data["name"] \in {"", " "}

\* C25: no two researchers share an email and no researcher has a blank
\* name; a create or an update that gives the email of another researcher
\* or an empty or whitespace name is answered with an error and leaves the
\* researcher table unchanged.
C25_ResearcherEmailUnique ==
    /\ [](\A r1 \in DOMAIN researchers :
            /\ researchers[r1].name \notin {"", " "}
            /\ \A r2 \in (DOMAIN researchers) \ {r1} :
                    researchers[r1].email # researchers[r2].email)
    /\ [][/\ \A data \in ResearcherCreateInputs :
                (/\ resp'.op = "researcher_create"
                 /\ TakenOrBlank(0, data)
                 /\ ResearcherInfoListCreateView_post(data))
                => (resp'.status >= 400 /\ researchers' = researchers)
          /\ \A r \in DOMAIN researchers, data \in ResearcherUpdateInputs,
                    partial \in BOOLEAN :
                (/\ resp'.op = "researcher_update"
                 /\ resp'.id = r
                 /\ TakenOrBlank(r, data)
                 /\ ResearcherInfoDetailView_update(r, data, partial))
                => (resp'.status >= 400 /\ researchers' = researchers)
         ]_vars

\* C25 witness: with two researchers stored, an update has just been refused.
C25_Witness ==
    /\ Cardinality(DOMAIN researchers) = 2
    /\ resp.op = "researcher_update"
    /\ resp.status = 400
    /\ resp.id \in DOMAIN researchers
    /\ resp.body = [errors |-> {"email"}]

\* A location payload with every required key, latitude and longitude in
\* their inclusive ranges and site_type, when given, in its closed set.
LocationAcceptable(data) ==
    /\ {"coordinates", "region", "country"} \subseteq DOMAIN data
    /\ {"latitude", "longitude"} \subseteq DOMAIN data["coordinates"]
    /\ data["coordinates"]["latitude"] \in -90..90
    /\ data["coordinates"]["longitude"] \in -180..180
    /\ "site_type" \in DOMAIN data => data["site_type"] \in SITE_TYPE_CHOICES

\* A condition payload with every required key, pH, temperature, humidity
\* and altitude in their inclusive ranges and the soil type in its closed set.
ConditionAcceptable(data) ==
    /\ {"soil_composition", "temperature", "humidity", "altitude"} \subseteq DOMAIN data
    /\ {"pH", "nutrients", "type"} \subseteq DOMAIN data["soil_composition"]
    /\ data["soil_composition"]["pH"] \in 0..14
    /\ data["temperature"] \in -50..60
    /\ data["humidity"] \in 0..100
    /\ data["altitude"] \in -500..9000
    /\ data["soil_composition"]["type"] \in SOIL_TYPE_CHOICES

\* C23: the location and condition validators accept a payload exactly when
\* every required key is present, every numeric field lies in its inclusive
\* range and every enumerated field is in its closed set: a request is
\* answered 201 and stored exactly then, and one field one unit outside its
\* range or one unknown enum value is refused with nothing stored.
C23_ValidatorsAcceptExactlyValid ==
    [][/\ \A data \in LocationBoundaryInputs :
            /\ (SamplingLocation_clean(data) = NoError) <=> LocationAcceptable(data)
            /\ SamplingLocationListCreateView_post(data)
                => /\ (resp'.status = 201) <=> LocationAcceptable(data)
                   /\ ~LocationAcceptable(data)
                        => (resp'.status >= 400 /\ locations' = locations)
       /\ \A data \in ConditionBoundaryInputs :
            /\ (EnvironmentalConditions_clean(data) = NoError) <=> ConditionAcceptable(data)
            /\ EnvironmentalConditionsListCreateView_post(data)
                => /\ (resp'.status = 201) <=> ConditionAcceptable(data)
                   /\ ~ConditionAcceptable(data)
                        => (resp'.status >= 400 /\ conditions' = conditions)
      ]_vars

\* C23 witness: a location at the upper bound of latitude and one at the
\* lower bound of longitude are stored, and a condition payload with the
\* altitude one metre above its range has just been refused.
C23_Witness ==
    /\ \E l \in DOMAIN locations : locations[l].location_data.coordinates.latitude = 90
    /\ \E l \in DOMAIN locations : locations[l].location_data.coordinates.longitude = -180
    /\ resp.op = "condition_create"
    /\ resp.status >= 400
    /\ resp.body = [error |-> "Altitude must be between -500 and 9000 meters"]
    /\ conditions = Empty

\* C24: every stored growth metric has a measured_at that is not earlier
\* than the sampling_date of its parent sample.
C24_GrowthNotBeforeSampling ==
    \A g \in DOMAIN growth :
        (/\ growth[g].sample \in DOMAIN samples
         /\ "sampling_date" \in DOMAIN samples[growth[g].sample].sample_detail
         /\ strptime_ok(samples[growth[g].sample].sample_detail["sampling_date"]))
        => growth[g].measured_at
                >= strptime(samples[growth[g].sample].sample_detail["sampling_date"])

\* C26: once a sample's is_deleted is true no request sets it to false
\* again: a step leaves the row of a soft-deleted sample as it is, or is the
\* hard delete that removes it.
C26_NoWayBackToActive ==
    [][\A i \in DOMAIN samples :
        samples[i].is_deleted
        => \/ i \in DOMAIN samples' /\ samples'[i] = samples[i]
           \/ /\ i \notin DOMAIN samples'
              /\ Handled("sample_hard_delete", i)
              /\ resp'.status = 200
      ]_vars

\* C26 witness: an update of a sample that was soft-deleted on an earlier
\* day has just been refused and the row is still soft-deleted.
C26_Witness ==
    /\ resp.op \in {"sample_put", "sample_patch"}
    /\ resp.status = 400
    /\ resp.id \in DOMAIN samples
    /\ samples[resp.id].is_deleted
    /\ samples[resp.id].deleted_at # Some(now)

\* C27: when an update that loaded an ACTIVE sample saves after a soft
\* delete of the sample has committed, the sample is still SOFT_DELETED:
\* the save resets neither is_deleted nor deleted_at.
C27_UpdateKeepsSoftDelete ==
    [][\A r \in DOMAIN pending :
        (/\ pending[r].op = "sample_put"
         /\ r \notin DOMAIN pending'
         /\ ~pending[r].sample.is_deleted
         /\ samples[pending[r].sample_id].is_deleted)
        => /\ samples'[pending[r].sample_id].is_deleted
           /\ samples'[pending[r].sample_id].deleted_at
                = samples[pending[r].sample_id].deleted_at
      ]_vars

\* C28: when two soft deletes of the same ACTIVE sample run at the same
\* time, at most one DELETED entry is appended for the sample.
C28_OneDeletedEntry ==
    \A i \in SampleIds :
        Cardinality({k \in DOMAIN audit :
                        audit[k].sample_id = i /\ audit[k].action = "DELETED"}) <= 1

\* The places in the audit log of the entries of sample i.
AuditOf(i) == {k \in DOMAIN audit : audit[k].sample_id = i}

\* C29: with requests handled one after another, the audit entries of each
\* sample id are ordered: CREATED is the first entry and appears once, no
\* UPDATED entry follows a DELETED entry, DELETED and HARD_DELETED appear at
\* most once each, and no entry follows the HARD_DELETED entry.
C29_AuditLifecycleOrder ==
    \A i \in SampleIds :
        \A k \in AuditOf(i) :
            /\ audit[k].action = "CREATED" <=> \A j \in AuditOf(i) : k <= j
            /\ \A j \in AuditOf(i) :
                    j > k => /\ audit[k].action = "DELETED"
                                => audit[j].action \notin {"UPDATED", "DELETED"}
                             /\ audit[k].action # "HARD_DELETED"

\* C29 witness: sample 1 went through its whole lifecycle, its log ends
\* with HARD_DELETED, and a later request on it found nothing to log for.
C29_Witness ==
    /\ Len(audit) = 3
    /\ \A k \in 1..3 : audit[k].sample_id = 1
    /\ audit[1].action = "CREATED"
    /\ audit[2].action = "DELETED"
    /\ audit[3].action = "HARD_DELETED"
    /\ resp.op \in {"sample_put", "sample_patch", "sample_delete", "growth_add",
                    "sample_hard_delete"}
    /\ resp.id = 1
    /\ resp.status = 404

\* C30: a sample has deleted_at set exactly when is_deleted is true: an
\* ACTIVE sample has deleted_at null, a SOFT_DELETED one has a deleted_at
\* that no later request changes.
C30_DeletedAtIffDeleted ==
    /\ [](\A i \in DOMAIN samples : (samples[i].deleted_at # Null) <=> samples[i].is_deleted)
    /\ [][\A i \in (DOMAIN samples) \cap (DOMAIN samples') :
            samples[i].is_deleted => samples'[i].deleted_at = samples[i].deleted_at]_vars

\* C30 witness: on the day after sample 1 was soft-deleted a second soft
\* delete of it has been answered; deleted_at is still the earlier day, and
\* an ACTIVE sample is stored next to it.
C30_Witness ==
    /\ resp.op = "sample_delete"
    /\ resp.id \in DOMAIN samples
    /\ samples[resp.id].is_deleted
    /\ samples[resp.id].deleted_at # Null
    /\ samples[resp.id].deleted_at # Some(now)
    /\ \E i \in DOMAIN samples : ~samples[i].is_deleted /\ samples[i].deleted_at = Null

\* C31: there are no orphaned children: every growth metric and every
\* researcher link references a sample row that exists, and every link
\* references a researcher that exists.
C31_NoOrphans ==
    /\ \A g \in DOMAIN growth : growth[g].sample \in DOMAIN samples
    /\ \A l \in DOMAIN links :
            /\ links[l].sample \in DOMAIN samples
            /\ links[l].researcher \in DOMAIN researchers

\* C31 witness: a sample that had a growth metric and a link has just been
\* hard-deleted; both are gone with it and the link of the other sample is
\* still stored.
C31_Witness ==
    /\ resp.op = "sample_hard_delete"
    /\ resp.status = 200
    /\ resp.id \notin DOMAIN samples
    /\ seq.growth = 1
    /\ growth = Empty
    /\ seq.link = 2
    /\ Cardinality(DOMAIN links) = 1

\* The sample ids that were handed out and whose row is gone.
HardDeletedIds == {i \in 1..seq.sample : i \notin DOMAIN samples}

\* C32: sample ids are never reused: a create returns an id that no stored
\* row and no audit entry carries, the row of a hard-deleted id never comes
\* back, and get-by-id on such an id reports NotFound.
C32_SampleIdsNeverReused ==
    /\ [](\A k \in DOMAIN audit : audit[k].sample_id \in 1..seq.sample)
    /\ [][/\ seq'.sample >= seq.sample
          /\ \A i \in HardDeletedIds : i \notin DOMAIN samples'
          /\ (now' = now /\ resp'.op = "sample_create" /\ resp'.status = 201)
                => /\ resp'.id = seq.sample + 1
                   /\ resp'.id \notin DOMAIN samples
                   /\ \A k \in DOMAIN audit : audit[k].sample_id # resp'.id
          /\ \A i \in HardDeletedIds :
                Handled("sample_get", i) => resp'.status = 404
         ]_vars

\* C32 witness: sample 1 was hard-deleted, then a create returned id 2, and
\* a get of id 1 has just been answered.
C32_Witness ==
    /\ 1 \notin DOMAIN samples
    /\ 2 \in DOMAIN samples
    /\ \E k \in DOMAIN audit : audit[k].sample_id = 1 /\ audit[k].action = "HARD_DELETED"
    /\ \E k \in DOMAIN audit :
            /\ audit[k].sample_id = 2
            /\ audit[k].action = "CREATED"
            /\ \E j \in 1..(k - 1) : audit[j].action = "HARD_DELETED"
    /\ resp.op = "sample_get"
    /\ resp.id = 1
    /\ resp.status = 404

\* C33: adding growth metrics through the per-sample endpoint is
\* all-or-nothing and logged: on success exactly one growth metric of the
\* sample is inserted and exactly one GROWTH_METRICS_ADDED entry with the
\* sample id and the new growth_id is appended; any other answer, NotFound
\* for a sample id that does not exist included, inserts neither.
C33_GrowthAddLogged ==
    [][\A i \in SampleIds :
        Handled("growth_add", i)
        => /\ i \notin DOMAIN samples => resp'.status = 404
           /\ resp'.status = 201
                => /\ i \in DOMAIN samples
                   /\ \E g \in (DOMAIN growth') \ (DOMAIN growth) :
                        /\ growth' = DictSet(growth, g, growth'[g])
                        /\ growth'[g].sample = i
                        /\ Len(audit') = Len(audit) + 1
                        /\ SubSeq(audit', 1, Len(audit)) = audit
                        /\ audit'[Len(audit')].sample_id = i
                        /\ audit'[Len(audit')].action = "GROWTH_METRICS_ADDED"
                        /\ audit'[Len(audit')].details.growth_id = g
           /\ resp'.status # 201 => (growth' = growth /\ audit' = audit)
           /\ UNCHANGED <<samples, links>>
      ]_vars

\* C33 witness: with a growth metric stored and logged for sample 1, a
\* request for a sample id that does not exist has been answered NotFound.
C33_Witness ==
    /\ resp.op = "growth_add"
    /\ resp.status = 404
    /\ resp.id \notin DOMAIN samples
    /\ \E g \in DOMAIN growth, k \in DOMAIN audit :
            /\ audit[k].action = "GROWTH_METRICS_ADDED"
            /\ audit[k].sample_id = growth[g].sample
            /\ audit[k].details.growth_id = g

\* C34: a SOFT_DELETED sample accepts no new children: a request that
\* creates a growth metric for it or a researcher link to it is refused,
\* and its growth metrics and links do not grow while it is soft-deleted.
C34_SoftDeletedTakesNoChildren ==
    [][\A i \in DOMAIN samples :
        samples[i].is_deleted
        => /\ \A g \in DOMAIN growth' : growth'[g].sample = i => g \in DOMAIN growth
           /\ \A l \in DOMAIN links' : links'[l].sample = i => l \in DOMAIN links
           /\ Handled("growth_add", i) => resp'.status >= 400
      ]_vars

====
